---- MODULE Spec2Model ----
(***************************************************************************)
(* Model of the collection and analysis pipeline of the-eye:               *)
(*   - URL canonicalization and the dedup store (app/pipeline/store.py),   *)
(*   - the run log (app/observability/logs.py),                            *)
(*   - the scrape tasks (app/workers/tasks.py),                            *)
(*   - the analysis task (app/workers/ml_tasks.py, app/ml/bias.py).        *)
(*                                                                         *)
(* URL strings are sequences of tokens.  A token stands for a run of       *)
(* characters of one class:                                                *)
(*   "s" = "http"   "S" = "HTTP"      (scheme text, lower / upper case)    *)
(*   "h" = "ex.com" "H" = "Ex.COM"    (host text, lower / upper case)      *)
(*   "a", "b" = path segment names, "A" = an upper-case segment name       *)
(*   "q" = query text, "f" = fragment text                                 *)
(*   ":" "/" "?" "#" = themselves                                          *)
(* The empty sequence is the empty string (and None: both are falsy).      *)
(***************************************************************************)
EXTENDS Integers, Sequences, FiniteSets, TLC

VARIABLES
    articles,   \* the articles table: sequence of rows, id = position
    logs,       \* the scraping_logs table: sequence of rows, id = position
    queue,      \* analysis messages in the broker, each a list of article ids
    bias,       \* the bias_analysis table: sequence of rows
    proc,       \* callers of insert_articles / scrape task executions
    ana,        \* executions of analyze_articles_task
    budget,     \* remaining calls, dispatches and injected faults of a behaviour
    fn          \* inputs and outputs of the pure functions under check

vars == <<articles, logs, queue, bias, proc, ana, budget, fn>>

-----------------------------------------------------------------------------
(* Bounds *)

MaxSlashes == 2     \* longest run of trailing slashes of an input URL
MaxCalls == 2       \* most insert_articles calls of a behaviour
MaxFaults == 1      \* most datastore or broker calls that raise in a behaviour

-----------------------------------------------------------------------------
(* Token strings *)

Letters == {"s", "S", "h", "H", "a", "A", "b", "q", "f"}

LowerTok(c) ==
    CASE c = "S" -> "s"
      [] c = "H" -> "h"
      [] c = "A" -> "a"
      [] OTHER -> c

\* str.lower()
LowerStr(s) == [i \in 1..Len(s) |-> LowerTok(s[i])]

\* index of the first token of s that is in cs, 0 when there is none (str.find + 1)
Find(s, cs) ==
    IF \E i \in 1..Len(s) : s[i] \in cs
    THEN CHOOSE i \in 1..Len(s) : s[i] \in cs /\ \A j \in 1..(i - 1) : s[j] \notin cs
    ELSE 0

Take(s, n) == SubSeq(s, 1, n)
Drop(s, n) == SubSeq(s, n + 1, Len(s))

\* s * n for a one-token string
Rep(c, n) == [i \in 1..n |-> c]

\* str.rstrip("/")
RECURSIVE RStripSlash(_)
RStripSlash(s) ==
    IF s # <<>> /\ s[Len(s)] = "/" THEN RStripSlash(Take(s, Len(s) - 1)) ELSE s

\* urllib.parse.uses_netloc contains "http" (and no other scheme of the alphabet)
UsesNetloc(scheme) == scheme = <<"s">>

\* urlsplit, the scheme: url[:i].lower() when ":" is found at i > 0 and only
\* scheme characters precede it; <<scheme, rest>>
SplitScheme(url) ==
    LET i == Find(url, {":"})
    IN  IF i > 1 /\ \A j \in 1..(i - 1) : url[j] \in Letters
        THEN <<LowerStr(Take(url, i - 1)), Drop(url, i)>>
        ELSE <<<<>>, url>>

\* urlsplit, the netloc: after a leading "//", up to the next "/", "?" or "#";
\* <<netloc, rest>>
SplitNetloc(url) ==
    IF Len(url) >= 2 /\ url[1] = "/" /\ url[2] = "/"
    THEN LET e == Find(Drop(url, 2), {"/", "?", "#"})
         IN  IF e = 0 THEN <<Drop(url, 2), <<>>>>
             ELSE <<SubSeq(url, 3, e + 1), Drop(url, e + 1)>>
    ELSE <<<<>>, url>>

\* url.split(c, 1) when c is in url; <<before, after>>
SplitAt(url, c) ==
    LET k == Find(url, {c})
    IN  IF k = 0 THEN <<url, <<>>>> ELSE <<Take(url, k - 1), Drop(url, k)>>

\* urllib.parse.urlparse(url), for URLs without ";" parameters
UrlParse(url) ==
    [scheme |-> SplitScheme(url)[1],
     netloc |-> SplitNetloc(SplitScheme(url)[2])[1],
     path |-> SplitAt(SplitAt(SplitNetloc(SplitScheme(url)[2])[2], "#")[1], "?")[1],
     query |-> SplitAt(SplitAt(SplitNetloc(SplitScheme(url)[2])[2], "#")[1], "?")[2],
     fragment |-> SplitAt(SplitNetloc(SplitScheme(url)[2])[2], "#")[2]]

\* urllib.parse.urlunparse((scheme, netloc, path, "", "", ""))
UrlUnparse(scheme, netloc, path) ==
    LET slashes == Len(path) >= 2 /\ path[1] = "/" /\ path[2] = "/"
        rooted == IF path # <<>> /\ path[1] # "/" THEN <<"/">> \o path ELSE path
        u1 == IF netloc # <<>> \/ (scheme # <<>> /\ UsesNetloc(scheme) /\ ~slashes)
              THEN <<"/", "/">> \o netloc \o rooted
              ELSE path
    IN  IF scheme # <<>> THEN scheme \o <<":">> \o u1 ELSE u1

\* _canonicalize_url(raw_url)
CanonicalizeUrl(raw_url) ==
    IF raw_url = <<>> THEN raw_url
    ELSE LET p == UrlParse(raw_url)
             netloc == LowerStr(p.netloc)
             path0 == IF p.path = <<>> THEN <<"/">> ELSE p.path
             path == IF path0 # <<"/">> /\ path0[Len(path0)] = "/"
                     THEN RStripSlash(path0) ELSE path0
         IN  UrlUnparse(p.scheme, netloc, path)

-----------------------------------------------------------------------------
(* Inputs of the canonicalizer *)

SchemeParts == {<<>>, <<"s", ":">>, <<"S", ":">>}
HostParts == {<<>>, <<"/", "/", "h">>, <<"/", "/", "H">>}
PathParts ==
    {<<>>}
    \cup {Rep("/", k) : k \in 1..MaxSlashes}
    \cup {<<"/", "a">> \o Rep("/", k) : k \in 0..MaxSlashes}
    \cup {<<"/", "A">> \o Rep("/", k) : k \in 0..MaxSlashes}
    \cup {<<"a">> \o Rep("/", k) : k \in 0..MaxSlashes}
QueryParts == {<<>>, <<"?", "q">>}
FragParts == {<<>>, <<"#", "f">>}

CanonInputs ==
    {s \o h \o p \o q \o f :
        s \in SchemeParts, h \in HostParts, p \in PathParts,
        q \in QueryParts, f \in FragParts}

-----------------------------------------------------------------------------
(* The articles table and insert_articles *)

NoFn == [pc |-> "none", raw |-> <<>>, once |-> <<>>, twice |-> <<>>]

\* An article of a batch is modelled by its url, a stored row by its id and url.
Row(id, url) == [id |-> id, url |-> url]

SeqToSet(s) == {s[i] : i \in 1..Len(s)}

StoredUrls(tbl) == {tbl[i].url : i \in 1..Len(tbl)}


IsUrl(u) == u # <<>>

\* to_check = [a.url for a in articles if a.url]
ToCheck(urls) == SelectSeq(urls, IsUrl)

\* sb.table('articles').select('url').in_('url', to_check).execute()
SelectExisting(tbl, to_check) == StoredUrls(tbl) \cap SeqToSet(to_check)

\* the rows built for the insert: articles with a url that is not in existing_urls
BuildRows(urls, existing) ==
    LET keep(u) == u # <<>> /\ u \notin existing
    IN  SelectSeq(urls, keep)

\* a datastore without the constraint on articles.url
NoUniqueConstraint(tbl, rows) == FALSE

\* articles.url is UNIQUE: a multi-row insert fails as a whole when one of its
\* urls is already stored or occurs twice among the rows
UrlUniqueViolation(tbl, rows) ==
    \/ \E i \in 1..Len(rows) : rows[i] \in StoredUrls(tbl)
    \/ \E i, j \in 1..Len(rows) : i # j /\ rows[i] = rows[j]

\* the table after sb.table('articles').insert(rows).execute() went through
InsertRows(tbl, rows) ==
    tbl \o [i \in 1..Len(rows) |-> Row(Len(tbl) + i, rows[i])]

\* inserted_ids = [int(r.get('id')) for r in data if r.get('id') is not None]
InsertedIds(tbl, rows) == [i \in 1..Len(rows) |-> Len(tbl) + i]

StoreResult(checked, skipped, inserted, ids, error) ==
    [checked |-> checked, skipped |-> skipped, inserted |-> inserted,
     inserted_ids |-> ids, error |-> error]

NoResult == StoreResult(0, 0, 0, <<>>, "none")

Procs == {"w1", "w2"}

IdleProc ==
    [pc |-> "idle", raw |-> <<>>, urls |-> <<>>, existing |-> {}, rows |-> <<>>,
     result |-> NoResult, seen |-> {}, raced |-> {}, faulted |-> FALSE,
     retries |-> 0, countdown |-> 0, log |-> 0, sent |-> <<>>, enqueued |-> {}]

\* the raw urls handed to insert_articles:
\*   http://ex.com/news, http://Ex.COM/news/?utm=1#top, http://ex.com/,
\*   http://ex.com//, ex.com/news (no scheme, no host), and no url at all
RawUrls ==
    { <<"s", ":", "/", "/", "h", "/", "a">>,
      <<"s", ":", "/", "/", "H", "/", "a", "/", "?", "q", "#", "f">>,
      <<"s", ":", "/", "/", "h", "/">>,
      <<"s", ":", "/", "/", "h", "/", "/">>,
      <<"h", "/", "a">>,
      <<>> }

\* _canonicalize_url on the raw urls, computed once
CanonicalOf == [u \in RawUrls |-> CanonicalizeUrl(u)]

\* for a in articles: if getattr(a, "url", None): a.url = _canonicalize_url(a.url)
CanonicalizeBatch(raw) ==
    [i \in 1..Len(raw) |-> IF raw[i] # <<>> THEN CanonicalOf[raw[i]] ELSE raw[i]]

\* the urls that occur in batches of two articles
PairUrls ==
    { <<"s", ":", "/", "/", "h", "/", "a">>,
      <<"s", ":", "/", "/", "H", "/", "a", "/", "?", "q", "#", "f">>,
      <<"s", ":", "/", "/", "h", "/">>,
      <<>> }

\* batches of no, one or two articles
Batches ==
    {<<>>} \cup {<<u>> : u \in RawUrls} \cup {<<u, v>> : u \in PairUrls, v \in PairUrls}

CanFault == budget.faults < MaxFaults
Fault(b) == [b EXCEPT !.faults = @ + 1]

\* insert_articles, first half, on the batch raw: canonicalize, collect to_check,
\* query the existing urls (the query may raise)
IaCheckWith(p, raw, b) ==
    /\ LET urls == CanonicalizeBatch(raw)
           to_check == ToCheck(urls)
           begun == [proc[p] EXCEPT !.raw = raw, !.urls = urls, !.existing = {},
                                    !.rows = <<>>, !.result = NoResult, !.seen = {},
                                    !.raced = {}, !.faulted = FALSE]
       IN  \/ /\ proc' = [proc EXCEPT ![p] =
                     [begun EXCEPT !.pc = "ia_insert",
                                   !.existing = SelectExisting(articles, to_check),
                                   !.seen = StoredUrls(articles)]]
              /\ budget' = b
           \/ /\ to_check # <<>>
              /\ CanFault
              /\ budget' = Fault(b)
              /\ proc' = [proc EXCEPT ![p] =
                     [begun EXCEPT !.pc = "ia_done", !.faulted = TRUE,
                                   !.result = StoreResult(0, 0, 0, <<>>, "check")]]
    /\ UNCHANGED <<articles, logs, queue, bias, ana, fn>>

\* insert_articles, second half: build the rows, one insert (which may raise, with
\* the rows stored or not), the result
IaInsert(p) ==
    /\ proc[p].pc = "ia_insert"
    /\ LET urls == proc[p].urls
           rows == BuildRows(urls, proc[p].existing)
           checked == Len(ToCheck(urls))
           skipped == Len(urls) - Len(rows)
           ok == StoreResult(checked, skipped, Len(rows), InsertedIds(articles, rows), "none")
           failed == StoreResult(checked, skipped, 0, <<>>, "insert")
       IN  \/ /\ rows = <<>>
              /\ proc' = [proc EXCEPT ![p].pc = "ia_done", ![p].rows = rows,
                                      ![p].result = StoreResult(checked, skipped, 0, <<>>, "none")]
              /\ UNCHANGED <<articles, budget>>
           \/ /\ rows # <<>>
              /\ UrlUniqueViolation(articles, rows)
              /\ proc' = [proc EXCEPT ![p].pc = "ia_done", ![p].rows = rows,
                                      ![p].raced = SeqToSet(rows) \cap StoredUrls(articles),
                                      ![p].result = failed]
              /\ UNCHANGED <<articles, budget>>
           \/ /\ rows # <<>>
              /\ ~UrlUniqueViolation(articles, rows)
              /\ articles' = InsertRows(articles, rows)
              /\ proc' = [proc EXCEPT ![p].pc = "ia_done", ![p].rows = rows,
                                      ![p].result = ok]
              /\ UNCHANGED budget
           \/ /\ rows # <<>>
              /\ CanFault
              /\ budget' = Fault(budget)
              /\ \/ UNCHANGED articles
                 \/ /\ ~UrlUniqueViolation(articles, rows)
                    /\ articles' = InsertRows(articles, rows)
              /\ proc' = [proc EXCEPT ![p].pc = "ia_done", ![p].rows = rows,
                                      ![p].faulted = TRUE,
                                      ![p].result = failed]
    /\ UNCHANGED <<logs, queue, bias, ana, fn>>

\* a caller hands a batch to insert_articles
StoreCall(p) ==
    /\ proc[p].pc \in {"idle", "ia_done"}
    /\ budget.calls < MaxCalls
    /\ \E batch \in Batches :
          IaCheckWith(p, batch, [budget EXCEPT !.calls = @ + 1])

InitStore ==
    /\ articles = <<>>
    /\ logs = <<>>
    /\ queue = <<>>
    /\ bias = <<>>
    /\ proc = [p \in Procs |-> IdleProc]
    /\ ana = <<>>
    /\ budget = [calls |-> 0, faults |-> 0]
    /\ fn = NoFn

NextStore == \E p \in Procs : StoreCall(p) \/ IaInsert(p)

SpecStore == InitStore /\ [][NextStore]_vars

-----------------------------------------------------------------------------
(* Properties of the store *)

C2_LostRaceIsSkip ==
    \A p \in Procs :
        (/\ proc[p].pc = "ia_done"
         /\ proc[p].raced # {}
         /\ ~proc[p].faulted
         /\ \A i, j \in 1..Len(proc[p].rows) : proc[p].rows[i] = proc[p].rows[j] => i = j)
        => /\ proc[p].result.error = "none"
           /\ SeqToSet(proc[p].rows) \subseteq StoredUrls(articles)
           /\ proc[p].result.skipped =
                 Len(proc[p].urls) - Len(proc[p].rows) + Cardinality(proc[p].raced)
           /\ proc[p].result.inserted = Len(proc[p].rows) - Cardinality(proc[p].raced)

\* r differs from c at most by its query string, its fragment, the letter case
\* of its host and one trailing slash
SameUpToVariation(c, r) ==
    LET pc == UrlParse(c)
        pr == UrlParse(r)
    IN  /\ pr.scheme = pc.scheme
        /\ LowerStr(pr.netloc) = LowerStr(pc.netloc)
        /\ \/ pr.path = pc.path
           \/ pr.path = pc.path \o <<"/">>
           \/ pc.path = pr.path \o <<"/">>

\* C3: a call whose n articles all have a url that is stored already, or differs
\* from a stored url only by query string, fragment, host letter case or one
\* trailing slash, returns checked=n, skipped=n, inserted=0 and no ids.
C3_RerunInsertsNothing ==
    \A p \in Procs :
        (/\ proc[p].pc = "ia_done"
         /\ ~proc[p].faulted
         /\ proc[p].raw # <<>>
         /\ \A i \in 1..Len(proc[p].raw) :
               /\ proc[p].raw[i] # <<>>
               /\ \E c \in proc[p].seen : SameUpToVariation(c, proc[p].raw[i]))
        => proc[p].result =
              StoreResult(Len(proc[p].raw), Len(proc[p].raw), 0, <<>>, "none")

\* C5: no stored row has a url without a scheme or without a host.
C5_NoRowWithoutSchemeOrHost ==
    \A i \in 1..Len(articles) :
        /\ UrlParse(articles[i].url).scheme # <<>>
        /\ UrlParse(articles[i].url).netloc # <<>>

-----------------------------------------------------------------------------
(* The canonicalizer applied twice *)

InitIdle ==
    /\ articles = <<>>
    /\ logs = <<>>
    /\ queue = <<>>
    /\ bias = <<>>
    /\ proc = <<>>
    /\ ana = <<>>
    /\ budget = [calls |-> 0, faults |-> 0]

InitCanon ==
    /\ InitIdle
    /\ \E u \in CanonInputs : fn = [pc |-> "raw", raw |-> u, once |-> <<>>, twice |-> <<>>]

CanonOnce ==
    /\ fn.pc = "raw"
    /\ fn' = [fn EXCEPT !.pc = "once", !.once = CanonicalizeUrl(fn.raw)]
    /\ UNCHANGED <<articles, logs, queue, bias, proc, ana, budget>>

CanonTwice ==
    /\ fn.pc = "once"
    /\ fn' = [fn EXCEPT !.pc = "twice", !.twice = CanonicalizeUrl(fn.once)]
    /\ UNCHANGED <<articles, logs, queue, bias, proc, ana, budget>>

NextCanon == CanonOnce \/ CanonTwice

SpecCanon == InitCanon /\ [][NextCanon]_vars

\* C4: canonicalizing a canonicalized url changes nothing.
C4_CanonIdempotent == fn.pc = "twice" => fn.twice = fn.once

-----------------------------------------------------------------------------
(* The run log *)

max_retries == 3            \* @shared_task(bind=True, max_retries=3, ...) of the scrape tasks
analyze_max_retries == 3    \* @shared_task(bind=True, max_retries=3, ...) of analyze_articles_task

\* a scraping_logs row; calls counts the finalize_run calls made for the row
LogRow(status) == [status |-> status, error |-> "none", calls |-> 0]

\* start_run: sb.table("scraping_logs").insert({... "status": "partial" ...})
StartRunInsert(tbl) == Append(tbl, LogRow("partial"))

\* finalize_run: sb.table("scraping_logs").update({"status": status,
\* "error_message": error_message, ...}).eq("id", log_id)
FinalizeUpdate(tbl, id, status, error) ==
    [tbl EXCEPT ![id].status = status, ![id].error = error]

\* one more finalize_run call for row id
CountCall(tbl, id) == [tbl EXCEPT ![id].calls = @ + 1]

-----------------------------------------------------------------------------
(* The analysis task *)

AnaWorkers == {"a1", "a2"}

IdleAna == [pc |-> "idle", ids |-> <<>>, rows |-> <<>>, retries |-> 0, countdown |-> 0]

BiasRow(article_id, model_version, model_type) ==
    [article_id |-> article_id, model_version |-> model_version,
     model_type |-> model_type, writes |-> 1]

\* build_comprehensive_bias_analysis(article_id, text)
BuildComprehensiveBiasAnalysis(article_id) ==
    << BiasRow(article_id, "vader_v1", "sentiment"),
       BiasRow(article_id, "philippine_bias_v1", "political_bias") >>

\* sb.table("articles").select("*").in_("id", article_ids): the ids of the
\* stored articles among article_ids, each once, in table order
FetchArticles(tbl, article_ids) ==
    LET wanted(r) == r.id \in SeqToSet(article_ids)
        found == SelectSeq(tbl, wanted)
    IN  [i \in 1..Len(found) |-> found[i].id]

\* out_rows: for r in rows: out_rows.extend(build_comprehensive_bias_analysis(...))
RECURSIVE BuildOutRows(_)
BuildOutRows(ids) ==
    IF ids = <<>> THEN <<>>
    ELSE BuildComprehensiveBiasAnalysis(Head(ids)) \o BuildOutRows(Tail(ids))

SameKey(r, s) ==
    /\ r.article_id = s.article_id
    /\ r.model_version = s.model_version
    /\ r.model_type = s.model_type

\* an insert that ignores the conflict target
PlainInsert(tbl, rows) == tbl \o rows

\* upsert(out_rows, on_conflict="article_id,model_version,model_type"): a row
\* whose key is stored replaces the stored row, any other row is added
RECURSIVE Upsert(_, _)
Upsert(tbl, rows) ==
    IF rows = <<>> THEN tbl
    ELSE LET r == Head(rows)
             hit == {i \in 1..Len(tbl) : SameKey(tbl[i], r)}
         IN  IF hit = {}
             THEN Upsert(Append(tbl, r), Tail(rows))
             ELSE Upsert([i \in 1..Len(tbl) |->
                             IF i \in hit THEN [r EXCEPT !.writes = tbl[i].writes + 1]
                             ELSE tbl[i]],
                         Tail(rows))

\* a retry after default_retry_delay
AnaDefaultCountdown(retries) == 60

\* self.retry(exc=e, countdown=60 * (2 ** self.request.retries))
AnaCountdown(retries) == 60 * 2^retries

\* the execution after an exception: self.retry(...) while retries are left,
\* else return {"ok": False, "error": str(e), ...}
AnaAfterRaise(a) ==
    IF a.retries < analyze_max_retries
    THEN [a EXCEPT !.pc = "fetch", !.rows = <<>>, !.retries = @ + 1,
                   !.countdown = AnaCountdown(a.retries)]
    ELSE [a EXCEPT !.pc = "error", !.rows = <<>>]

\* a worker takes the next analysis message from the broker
AnaStart(w) ==
    /\ ana[w].pc \in {"idle", "error"}
    /\ queue # <<>>
    /\ ana' = [ana EXCEPT ![w] = [IdleAna EXCEPT !.pc = "fetch", !.ids = Head(queue)]]
    /\ queue' = Tail(queue)
    /\ UNCHANGED <<articles, logs, bias, proc, budget, fn>>

\* analyze_articles_task: fetch the articles (the query may raise)
AnaFetch(w) ==
    /\ ana[w].pc = "fetch"
    /\ \/ /\ ana' = [ana EXCEPT ![w].pc = "upsert",
                                ![w].rows = FetchArticles(articles, ana[w].ids)]
          /\ UNCHANGED budget
       \/ /\ CanFault
          /\ budget' = Fault(budget)
          /\ ana' = [ana EXCEPT ![w] = AnaAfterRaise(ana[w])]
    /\ UNCHANGED <<articles, logs, queue, bias, proc, fn>>

\* analyze_articles_task: build out_rows (the analysis may raise), one upsert
\* when there are rows (which may raise, with the rows written or not)
AnaUpsert(w) ==
    /\ ana[w].pc = "upsert"
    /\ LET out_rows == BuildOutRows(ana[w].rows)
       IN  \/ /\ ana[w].rows # <<>>
              /\ ana' = [ana EXCEPT ![w] = AnaAfterRaise(ana[w])]
              /\ UNCHANGED <<bias, budget>>
           \/ /\ out_rows = <<>>
              /\ ana' = [ana EXCEPT ![w] = IdleAna]
              /\ UNCHANGED <<bias, budget>>
           \/ /\ out_rows # <<>>
              /\ bias' = Upsert(bias, out_rows)
              /\ ana' = [ana EXCEPT ![w] = IdleAna]
              /\ UNCHANGED budget
           \/ /\ out_rows # <<>>
              /\ CanFault
              /\ budget' = Fault(budget)
              /\ bias' \in {bias, Upsert(bias, out_rows)}
              /\ ana' = [ana EXCEPT ![w] = AnaAfterRaise(ana[w])]
    /\ UNCHANGED <<articles, logs, queue, proc, fn>>

-----------------------------------------------------------------------------
(* The scrape tasks *)

\* what scrape_latest returns as result.articles: no article, one, two, or two
\* with the same canonical url
ScrapeResults ==
    { <<>>,
      << <<"s", ":", "/", "/", "h", "/", "a">> >>,
      << <<"s", ":", "/", "/", "h", "/", "a">>, <<"s", ":", "/", "/", "h", "/">> >>,
      << <<"s", ":", "/", "/", "h", "/", "a">>,
         <<"s", ":", "/", "/", "H", "/", "a", "/", "?", "q", "#", "f">> >> }

\* the worker processes that run scrape tasks
TaskWorkers == {"w1"}

\* the positions of a task between start_run and its return
InBody == {"scrape", "ia_check", "ia_insert", "ia_done", "fin_ok", "except"}

\* a trigger without the emptiness test
AlwaysEnqueue(inserted_ids) == TRUE

\* if inserted_ids:
ShouldEnqueue(inserted_ids) == inserted_ids # <<>>

\* a retry after default_retry_delay
DefaultCountdown(retries) == 60

\* self.retry(countdown=60 * (2 ** self.request.retries))
Countdown(retries) == 60 * 2^retries

\* the broker hands a scrape task to a worker
Dispatch(p) ==
    /\ proc[p].pc = "idle"
    /\ proc' = [proc EXCEPT ![p].pc = "start"]
    /\ UNCHANGED <<articles, logs, queue, bias, ana, budget, fn>>

\* log = start_run(source), before the try: when the insert raises the task
\* fails with the row written or not
StartRun(p) ==
    /\ proc[p].pc = "start"
    /\ LET fresh == [IdleProc EXCEPT !.retries = proc[p].retries,
                                     !.countdown = proc[p].countdown,
                                     !.enqueued = proc[p].enqueued]
       IN  \/ /\ logs' = StartRunInsert(logs)
              /\ proc' = [proc EXCEPT ![p] =
                     [fresh EXCEPT !.pc = "scrape", !.log = Len(logs) + 1]]
              /\ UNCHANGED budget
           \/ /\ CanFault
              /\ budget' = Fault(budget)
              /\ logs' \in {logs, StartRunInsert(logs)}
              /\ proc' = [proc EXCEPT ![p] = [fresh EXCEPT !.pc = "failed"]]
    /\ UNCHANGED <<articles, queue, bias, ana, fn>>

\* result = scraper.scrape_latest(...), which may raise; if result.articles:
Scrape(p) ==
    /\ proc[p].pc = "scrape"
    /\ \/ \E found \in ScrapeResults :
             proc' = [proc EXCEPT ![p].raw = found,
                                  ![p].pc = IF found # <<>> THEN "ia_check" ELSE "fin_ok"]
       \/ proc' = [proc EXCEPT ![p].pc = "except"]
    /\ UNCHANGED <<articles, logs, queue, bias, ana, budget, fn>>

\* store_result = insert_articles(result.articles), first half
IaCheck(p) ==
    /\ proc[p].pc = "ia_check"
    /\ IaCheckWith(p, proc[p].raw, budget)

\* inserted_ids = store_result.get("inserted_ids") or []; if inserted_ids:
\* analyze_articles_task.delay(inserted_ids), which may raise with the message
\* sent or not
Enqueue(p) ==
    /\ proc[p].pc = "ia_done"
    /\ LET inserted_ids == proc[p].result.inserted_ids
       IN  \/ /\ ~ShouldEnqueue(inserted_ids)
              /\ proc' = [proc EXCEPT ![p].pc = "fin_ok"]
              /\ UNCHANGED <<queue, budget>>
           \/ /\ ShouldEnqueue(inserted_ids)
              /\ queue' = Append(queue, inserted_ids)
              /\ proc' = [proc EXCEPT ![p].pc = "fin_ok",
                                      ![p].sent = Append(@, inserted_ids),
                                      ![p].enqueued = @ \cup SeqToSet(inserted_ids)]
              /\ UNCHANGED budget
           \/ /\ ShouldEnqueue(inserted_ids)
              /\ CanFault
              /\ budget' = Fault(budget)
              /\ \/ /\ queue' = Append(queue, inserted_ids)
                    /\ proc' = [proc EXCEPT ![p].pc = "except",
                                            ![p].sent = Append(@, inserted_ids),
                                            ![p].enqueued = @ \cup SeqToSet(inserted_ids)]
                 \/ /\ UNCHANGED queue
                    /\ proc' = [proc EXCEPT ![p].pc = "except"]
    /\ UNCHANGED <<articles, logs, bias, ana, fn>>

\* finalize_run(log["id"], status="success", ...) inside the try, then return;
\* when the update raises, written or not, control passes to the handler
FinalizeOk(p) ==
    /\ proc[p].pc = "fin_ok"
    /\ LET id == proc[p].log
           called == CountCall(logs, id)
       IN  \/ /\ logs' = FinalizeUpdate(called, id, "success", "none")
              /\ proc' = [proc EXCEPT ![p].pc = "done"]
              /\ UNCHANGED budget
           \/ /\ CanFault
              /\ budget' = Fault(budget)
              /\ logs' \in {called, FinalizeUpdate(called, id, "success", "none")}
              /\ proc' = [proc EXCEPT ![p].pc = "except"]
    /\ UNCHANGED <<articles, queue, bias, ana, fn>>

\* except Exception as e: finalize_run(log["id"], status="error", ...), then
\* self.retry(...) while retries are left, else return retries_exhausted; when
\* the update raises, written or not, the exception leaves the task
Except(p) ==
    /\ proc[p].pc = "except"
    /\ LET id == proc[p].log
           called == CountCall(logs, id)
       IN  \/ /\ logs' = FinalizeUpdate(called, id, "error", "exception")
              /\ proc' = IF proc[p].retries < max_retries
                         THEN [proc EXCEPT ![p].pc = "start", ![p].retries = @ + 1,
                                           ![p].countdown = Countdown(proc[p].retries)]
                         ELSE [proc EXCEPT ![p].pc = "exhausted"]
              /\ UNCHANGED budget
           \/ /\ CanFault
              /\ budget' = Fault(budget)
              /\ logs' \in {called, FinalizeUpdate(called, id, "error", "exception")}
              /\ proc' = [proc EXCEPT ![p].pc = "failed"]
    /\ UNCHANGED <<articles, queue, bias, ana, fn>>

\* the worker process is terminated from outside while the task is in its body:
\* no handler of the task runs
Terminate(p) ==
    /\ proc[p].pc \in InBody
    /\ proc' = [proc EXCEPT ![p].pc = "killed"]
    /\ UNCHANGED <<articles, logs, queue, bias, ana, budget, fn>>

Init ==
    /\ articles = <<>>
    /\ logs = <<>>
    /\ queue = <<>>
    /\ bias = <<>>
    /\ proc = [p \in Procs |-> IdleProc]
    /\ ana = [w \in AnaWorkers |-> IdleAna]
    /\ budget = [calls |-> 0, faults |-> 0]
    /\ fn = NoFn

Next ==
    \/ \E p \in TaskWorkers :
          \/ Dispatch(p)
          \/ StartRun(p)
          \/ Scrape(p)
          \/ IaCheck(p)
          \/ IaInsert(p)
          \/ Enqueue(p)
          \/ FinalizeOk(p)
          \/ Except(p)
          \/ Terminate(p)
    \/ \E w \in AnaWorkers :
          \/ AnaStart(w)
          \/ AnaFetch(w)
          \/ AnaUpsert(w)

Spec == Init /\ [][Next]_vars

\* a step of the scrape task in worker p, from the dispatch to the return
TaskStep(p) ==
    \/ Dispatch(p)
    \/ StartRun(p)
    \/ Scrape(p)
    \/ IaCheck(p)
    \/ IaInsert(p)
    \/ Enqueue(p)
    \/ FinalizeOk(p)
    \/ Except(p)

\* the worker runs a dispatched task on, and the broker delivers its retries
FairSpec == Spec /\ \A p \in TaskWorkers : WF_vars(TaskStep(p))

-----------------------------------------------------------------------------
(* Properties of the scrape tasks *)

\* C6 (refuted): no step writes a scraping_logs row whose status is success or
\* error with a different status.
C6_OnlyFromPartial ==
    [][\A i \in 1..Len(logs) :
          logs[i].status # "partial" => logs'[i].status = logs[i].status]_vars

\* C7 (refuted): finalize_run is never called twice for the run record of an
\* execution, and has been called once when the execution has ended by return,
\* retry or exception.
C7_FinalizedExactlyOnce ==
    \A p \in Procs :
        proc[p].log # 0 =>
            /\ logs[proc[p].log].calls <= 1
            /\ proc[p].pc \in {"done", "exhausted", "failed", "start"}
                  => logs[proc[p].log].calls = 1

\* C8 (refuted): the run record of an execution that was terminated from outside
\* has status error and a reason.
C8_CancelledIsFinalizedError ==
    \A p \in Procs :
        proc[p].pc = "killed" =>
            /\ logs[proc[p].log].status = "error"
            /\ logs[proc[p].log].error # "none"

\* the analysis messages of one execution: at most one, it carries exactly the
\* inserted_ids that insert_articles returned and these are not empty, and it is
\* there when the execution has passed the trigger with inserted_ids not empty
EnqueuedOnceWithInsertedIds ==
    \A p \in Procs :
        /\ Len(proc[p].sent) <= 1
        /\ proc[p].sent # <<>> =>
              /\ proc[p].sent[1] = proc[p].result.inserted_ids
              /\ proc[p].sent[1] # <<>>
        /\ (proc[p].pc \in {"fin_ok", "done"} /\ proc[p].result.inserted_ids # <<>>)
              => proc[p].sent = <<proc[p].result.inserted_ids>>

\* C9: in one scrape task execution the analysis is enqueued once, with exactly
\* the inserted_ids returned by insert_articles, when these are not empty, and
\* not at all when they are empty; no step of a scrape task writes bias_analysis.
C9_EnqueueExactlyInsertedIds ==
    /\ []EnqueuedOnceWithInsertedIds
    /\ [][proc' # proc => bias' = bias]_vars

\* C9 witness: an execution stored two new articles and has passed the trigger
\* with one message that carries their two ids.
C9_Witness ==
    \E p \in Procs :
        /\ proc[p].pc \in {"fin_ok", "done"}
        /\ Len(proc[p].result.inserted_ids) = 2
        /\ proc[p].sent = <<proc[p].result.inserted_ids>>

-----------------------------------------------------------------------------
(* The analysis task on a filled articles table *)

MaxRequests == 2    \* most POST /ml/analyze requests of a behaviour

\* the articles table with two stored articles, http://ex.com/news and http://ex.com/
StoredArticles ==
    << Row(1, <<"s", ":", "/", "/", "h", "/", "a">>),
       Row(2, <<"s", ":", "/", "/", "h", "/">>) >>

\* the article_ids of a request: one id or two, in either order, repeated, or
\* with an id (3) that is not stored
IdLists == {<<1>>, <<2>>, <<3>>, <<1, 2>>, <<2, 1>>, <<1, 1>>, <<2, 3>>}

\* POST /ml/analyze with article_ids: analyze_articles_task.delay(article_ids)
ApiAnalyze ==
    /\ budget.calls < MaxRequests
    /\ \E article_ids \in IdLists : queue' = Append(queue, article_ids)
    /\ budget' = [budget EXCEPT !.calls = @ + 1]
    /\ UNCHANGED <<articles, logs, bias, proc, ana, fn>>

InitAnalysis ==
    /\ articles = StoredArticles
    /\ logs = <<>>
    /\ queue = <<>>
    /\ bias = <<>>
    /\ proc = [p \in Procs |-> IdleProc]
    /\ ana = [w \in AnaWorkers |-> IdleAna]
    /\ budget = [calls |-> 0, faults |-> 0]
    /\ fn = NoFn

NextAnalysis ==
    \/ ApiAnalyze
    \/ \E w \in AnaWorkers :
          \/ AnaStart(w)
          \/ AnaFetch(w)
          \/ AnaUpsert(w)

SpecAnalysis == InitAnalysis /\ [][NextAnalysis]_vars

\* the rows of article a with model type t
RowsOf(a, t) ==
    {i \in 1..Len(bias) : bias[i].article_id = a /\ bias[i].model_type = t}

\* C10: bias_analysis never holds two rows with the same (article_id,
\* model_version, model_type); every article with a row has exactly one sentiment
\* row and one political_bias row, so the table has two rows per analysed
\* article however often an id was analysed.
C10_OneRowPerKey ==
    /\ \A i, j \in 1..Len(bias) : SameKey(bias[i], bias[j]) => i = j
    /\ \A i \in 1..Len(bias) :
          /\ Cardinality(RowsOf(bias[i].article_id, "sentiment")) = 1
          /\ Cardinality(RowsOf(bias[i].article_id, "political_bias")) = 1
    /\ Len(bias) = 2 * Cardinality({bias[i].article_id : i \in 1..Len(bias)})

\* C10 witness: an article was analysed a second time, both of its rows were
\* written again.
C10_Witness ==
    \E i, j \in 1..Len(bias) :
        /\ bias[i].article_id = bias[j].article_id
        /\ bias[i].model_type = "sentiment"
        /\ bias[j].model_type = "political_bias"
        /\ bias[i].writes >= 2
        /\ bias[j].writes >= 2

-----------------------------------------------------------------------------
(* Properties of the error handling *)

\* C11 (refuted): an execution whose insert_articles call met a raising
\* datastore call (the existing-url query or the insert) does not return as a
\* success: its run record is finalized with status error.
C11_StoreErrorFinalizesError ==
    \A p \in Procs :
        (proc[p].faulted /\ proc[p].pc = "done")
            => logs[proc[p].log].status = "error"

\* C12: a scrape task executes at most 1 + 3 times; its retries are scheduled
\* with countdowns of 60, 120 and 240 seconds; it returns retries_exhausted only
\* from its fourth execution, and its fourth execution schedules no retry.
C12_RetryBackoffAndExhaustion ==
    \A p \in Procs :
        /\ proc[p].retries \in 0..3
        /\ proc[p].retries = 0 => proc[p].countdown = 0
        /\ proc[p].retries = 1 => proc[p].countdown = 60
        /\ proc[p].retries = 2 => proc[p].countdown = 120
        /\ proc[p].retries = 3 => proc[p].countdown = 240
        /\ proc[p].pc = "exhausted" => proc[p].retries = 3

\* C12 witness: a task raised in four executions and returned retries_exhausted
\* after a last countdown of 240 seconds.
C12_Witness ==
    \E p \in Procs :
        /\ proc[p].pc = "exhausted"
        /\ proc[p].retries = 3
        /\ proc[p].countdown = 240
        /\ Len(logs) = 4

\* C13: analyze_articles_task is retried at most 3 times, with countdowns of
\* 60, 120 and 240 seconds; it returns its error result only from the fourth
\* execution; no step removes a row of bias_analysis.
C13_AnalysisRetryKeepsRows ==
    /\ [](\A w \in AnaWorkers :
             /\ ana[w].retries \in 0..3
             /\ ana[w].retries = 0 => ana[w].countdown = 0
             /\ ana[w].retries = 1 => ana[w].countdown = 60
             /\ ana[w].retries = 2 => ana[w].countdown = 120
             /\ ana[w].retries = 3 => ana[w].countdown = 240
             /\ ana[w].pc = "error" => ana[w].retries = 3)
    /\ [][\A i \in 1..Len(bias) : \E j \in 1..Len(bias') : SameKey(bias[i], bias'[j])]_vars

\* C13 witness: an analysis raised in four executions and returned its error
\* result while rows of an earlier execution are stored.
C13_Witness ==
    \E w \in AnaWorkers :
        /\ ana[w].pc = "error"
        /\ ana[w].retries = 3
        /\ ana[w].countdown = 240
        /\ bias # <<>>

-----------------------------------------------------------------------------
(* The run log with its time stamps *)

MaxClock == 3       \* latest instant of the clock
MaxRuns == 2        \* most run records of a behaviour

\* a column that is null
Null == <<>>

\* a column that holds v
Some(v) == <<v>>

\* start_run: the row inserted with "started_at": now; the code sets neither
\* completed_at nor execution_time_ms
TimedLogRow(now) ==
    [status |-> "partial", articles_scraped |-> 0, error_message |-> "null",
     started_at |-> Some(now), completed_at |-> Null, execution_time_ms |-> Null]

\* max(0, int(articles_scraped or 0))
NonNegative(n) == IF n > 0 THEN n ELSE 0

\* finalize_run: update({"status", "articles_scraped", "error_message",
\* "completed_at"}).eq("id", log_id)
TimedFinalize(tbl, id, status, articles_scraped, error_message, completed) ==
    [tbl EXCEPT ![id].status = status,
                ![id].articles_scraped = NonNegative(articles_scraped),
                ![id].error_message = error_message,
                ![id].completed_at = Some(completed)]

\* datetime.now(timezone.utc) advances
LogTick ==
    /\ fn.pc = "clock"
    /\ fn.now < MaxClock
    /\ fn' = [fn EXCEPT !.now = @ + 1]
    /\ UNCHANGED <<articles, logs, queue, bias, proc, ana, budget>>

\* start_run(source)
LogStartRun ==
    /\ fn.pc = "clock"
    /\ Len(logs) < MaxRuns
    /\ logs' = Append(logs, TimedLogRow(fn.now))
    /\ UNCHANGED <<articles, queue, bias, proc, ana, budget, fn>>

\* finalize_run(log_id, status=..., articles_scraped=..., error_message=...) as
\* the tasks call it: success with no message, or error with a message
LogFinalizeRun ==
    /\ fn.pc = "clock"
    /\ \E id \in 1..Len(logs), articles_scraped \in {-1, 0, 1} :
          \/ logs' = TimedFinalize(logs, id, "success", articles_scraped, "null", fn.now)
          \/ logs' = TimedFinalize(logs, id, "error", articles_scraped, "exception", fn.now)
    /\ UNCHANGED <<articles, queue, bias, proc, ana, budget, fn>>

InitLog ==
    /\ InitIdle
    /\ fn = [pc |-> "clock", now |-> 0]

NextLog == LogTick \/ LogStartRun \/ LogFinalizeRun

SpecLog == InitLog /\ [][NextLog]_vars

\* C14 (refuted): every row whose status is not partial has completed_at >=
\* started_at and an execution_time_ms that is recorded and >= 0.
C14_FinalizedRowHasDuration ==
    \A i \in 1..Len(logs) :
        logs[i].status # "partial" =>
            /\ logs[i].completed_at # Null
            /\ logs[i].completed_at[1] >= logs[i].started_at[1]
            /\ logs[i].execution_time_ms # Null
            /\ logs[i].execution_time_ms[1] >= 0

-----------------------------------------------------------------------------
(* The beat schedule.  Time is counted in hundredths of an hour (36 seconds),
   the unit in which the source writes its intervals. *)

MaxTime == 1500     \* the scheduler is followed for 15 hours

\* celery.conf.beat_schedule of app/workers/celery_app.py: schedule(h * 60 * 60)
WorkersBeatSchedule ==
    [scrape_rappler |-> 100, scrape_gma |-> 108, scrape_philstar |-> 117,
     scrape_inquirer |-> 125, scrape_abs_cbn |-> 125, scrape_manila_bulletin |-> 133,
     scrape_manila_times |-> 142, scrape_sunstar |-> 150]

\* celery_app.conf.beat_schedule of app/celery.py
AppBeatSchedule ==
    [scrape_rappler |-> 100, scrape_gma |-> 108, scrape_philstar |-> 117,
     scrape_inquirer |-> 125, scrape_manila_bulletin |-> 133,
     scrape_manila_times |-> 142, scrape_sunstar |-> 150]

BeatSchedules == {WorkersBeatSchedule, AppBeatSchedule}

\* schedule.is_due(last_run_at): the interval has elapsed
IsDue(run_every, last_run_at, now) == now - last_run_at >= run_every

\* the instant the scheduler sleeps to: the earliest next run of an entry
NextWakeup(sched, last) ==
    CHOOSE t \in {last[e] + sched[e] : e \in DOMAIN sched} :
        \A e \in DOMAIN sched : t <= last[e] + sched[e]

\* beat sends the task of an entry that is due and notes the instant as its last run
BeatDispatch ==
    /\ fn.pc = "beat"
    /\ \E e \in DOMAIN fn.sched :
          /\ IsDue(fn.sched[e], fn.last[e], fn.now)
          /\ fn' = [fn EXCEPT !.last[e] = fn.now, !.sent = @ \cup {e}]
    /\ UNCHANGED <<articles, logs, queue, bias, proc, ana, budget>>

\* no entry is due: beat sleeps until the next entry is
BeatSleep ==
    /\ fn.pc = "beat"
    /\ \A e \in DOMAIN fn.sched : ~IsDue(fn.sched[e], fn.last[e], fn.now)
    /\ NextWakeup(fn.sched, fn.last) <= MaxTime
    /\ fn' = [fn EXCEPT !.now = NextWakeup(fn.sched, fn.last), !.sent = {}]
    /\ UNCHANGED <<articles, logs, queue, bias, proc, ana, budget>>

\* beat starts: every entry counts as last run at the start
InitBeat ==
    /\ InitIdle
    /\ \E sched \in BeatSchedules :
          fn = [pc |-> "beat", sched |-> sched, now |-> 0,
                last |-> [e \in DOMAIN sched |-> 0], sent |-> {}]

NextBeat == BeatDispatch \/ BeatSleep

SpecBeat == InitBeat /\ [][NextBeat]_vars

\* C15 (refuted): no two entries of the schedule are dispatched at the same
\* instant.
C15_NoSimultaneousDispatch == Cardinality(fn.sent) <= 1

-----------------------------------------------------------------------------
(* Scrape task messages and the worker pool *)

MaxEnqueues == 2    \* most requests and scheduler dispatches of a behaviour

Sources == {"rappler", "gma"}

\* the "sources" of a POST /scrape/run request: one source or two, repeated or not
SourceLists == {<<s>> : s \in Sources} \cup {<<s, r>> : s \in Sources, r \in Sources}

TaskMessage(source, retries) == [source |-> source, retries |-> retries]

IdleWorker == [pc |-> "idle", source |-> "none", retries |-> 0]

\* POST /scrape/run: for s in sources: scrape_<s>_task.delay()
ApiRunScrape ==
    /\ budget.calls < MaxEnqueues
    /\ \E sources \in SourceLists :
          queue' = queue \o [i \in 1..Len(sources) |-> TaskMessage(sources[i], 0)]
    /\ budget' = [budget EXCEPT !.calls = @ + 1]
    /\ UNCHANGED <<articles, logs, bias, proc, ana, fn>>

\* beat sends the scrape task of a schedule entry
BeatSendTask ==
    /\ budget.calls < MaxEnqueues
    /\ \E s \in Sources : queue' = Append(queue, TaskMessage(s, 0))
    /\ budget' = [budget EXCEPT !.calls = @ + 1]
    /\ UNCHANGED <<articles, logs, bias, proc, ana, fn>>

\* a free process of the worker pool takes the next message and runs the task
PoolTake(w) ==
    /\ proc[w].pc = "idle"
    /\ queue # <<>>
    /\ proc' = [proc EXCEPT ![w] = [pc |-> "running", source |-> Head(queue).source,
                                    retries |-> Head(queue).retries]]
    /\ queue' = Tail(queue)
    /\ UNCHANGED <<articles, logs, bias, ana, budget, fn>>

\* the task returns (success, or retries_exhausted)
PoolReturn(w) ==
    /\ proc[w].pc = "running"
    /\ proc' = [proc EXCEPT ![w] = IdleWorker]
    /\ UNCHANGED <<articles, logs, queue, bias, ana, budget, fn>>

\* the task raises self.retry(...): its message is sent again
PoolRetry(w) ==
    /\ proc[w].pc = "running"
    /\ proc[w].retries < max_retries
    /\ queue' = Append(queue, TaskMessage(proc[w].source, proc[w].retries + 1))
    /\ proc' = [proc EXCEPT ![w] = IdleWorker]
    /\ UNCHANGED <<articles, logs, bias, ana, budget, fn>>

InitPool ==
    /\ articles = <<>>
    /\ logs = <<>>
    /\ queue = <<>>
    /\ bias = <<>>
    /\ proc = [w \in Procs |-> IdleWorker]
    /\ ana = <<>>
    /\ budget = [calls |-> 0, faults |-> 0]
    /\ fn = NoFn

NextPool ==
    \/ ApiRunScrape
    \/ BeatSendTask
    \/ \E w \in Procs : PoolTake(w) \/ PoolReturn(w) \/ PoolRetry(w)

SpecPool == InitPool /\ [][NextPool]_vars

\* C16 (refuted): no two processes of the pool execute the scrape task of the
\* same source at the same time.
C16_OneTaskPerSource ==
    \A w, v \in Procs :
        (w # v /\ proc[w].pc = "running" /\ proc[v].pc = "running")
            => proc[w].source # proc[v].source

-----------------------------------------------------------------------------
(* One run of the GMA adapter: GMAScraper.scrape_latest *)

MaxUrls == 3        \* largest max_articles of a run; a page has at most one link more

\* START_PATHS = ["/news/", "/news/latest/"]
START_PATHS == <<"/news/", "/news/latest/">>

\* random.uniform(MIN_DELAY, MAX_DELAY) with MIN_DELAY = 5.0, MAX_DELAY = 12.0:
\* the ends of the range stand for the range
HumanDelays == {5, 12}

\* a run before its first request; last is the last thing the run did to the
\* site ("none", "request" or "delay"), undelayed tells that a request followed
\* a request with no delay between them
GmaStart(max_articles) ==
    [pc |-> "landing", max_articles |-> max_articles, path |-> 1, resp |-> "none", urls |-> 0, i |-> 0,
     articles |-> 0, errors |-> 0, attempted |-> 0, last |-> "none", delay |-> 0,
     undelayed |-> FALSE, raised |-> FALSE]

\* the run after a request
Requested(run) ==
    [run EXCEPT !.last = "request", !.undelayed = @ \/ run.last = "request"]

\* the run after self._human_delay()
Delayed(run, delay) == [run EXCEPT !.last = "delay", !.delay = delay]

\* for path in self.START_PATHS: page.goto(...); break on a status < 400, else
\* (status >= 400 or exception) self._human_delay() and the next path
GmaLanding ==
    /\ fn.pc = "landing"
    /\ fn.path <= Len(START_PATHS)
    /\ \/ fn' = [Requested(fn) EXCEPT !.resp = "ok", !.pc = "extract"]
       \/ \E outcome \in {"bad", "exception"}, delay \in HumanDelays :
             fn' = [Delayed(Requested(fn), delay) EXCEPT
                       !.resp = IF outcome = "bad" THEN "bad" ELSE fn.resp,
                       !.path = @ + 1]
    /\ UNCHANGED <<articles, logs, queue, bias, proc, ana, budget>>

\* after the loop: if not resp or resp.status >= 400: raise RuntimeError, which
\* the outer handler turns into an entry of errors
GmaNoLanding ==
    /\ fn.pc = "landing"
    /\ fn.path > Len(START_PATHS)
    /\ fn' = [fn EXCEPT !.pc = "done", !.errors = @ + 1]
    /\ UNCHANGED <<articles, logs, queue, bias, proc, ana, budget>>

\* urls = self._extract_article_links(soup); urls[:max_articles]
GmaExtractLinks ==
    /\ fn.pc = "extract"
    /\ \E found \in 0..(MaxUrls + 1) :
          LET n == IF found < fn.max_articles THEN found ELSE fn.max_articles
          IN  fn' = [fn EXCEPT !.urls = n, !.pc = IF n = 0 THEN "done" ELSE "articles"]
    /\ UNCHANGED <<articles, logs, queue, bias, proc, ana, budget>>

\* art = self._scrape_article(url, browser): one request, an article or None;
\* then self._human_delay() unless the url was the last one
GmaArticle ==
    /\ fn.pc = "articles"
    /\ \E got \in BOOLEAN, delay \in HumanDelays :
          LET fetched == [Requested(fn) EXCEPT
                             !.attempted = @ + 1,
                             !.articles = IF got THEN @ + 1 ELSE @,
                             !.errors = IF got THEN @ ELSE @ + 1,
                             !.i = @ + 1]
          IN  fn' = IF fn.i < fn.urls - 1
                    THEN Delayed(fetched, delay)
                    ELSE [fetched EXCEPT !.pc = "done"]
    /\ UNCHANGED <<articles, logs, queue, bias, proc, ana, budget>>

InitGma ==
    /\ InitIdle
    /\ \E max_articles \in 1..MaxUrls : fn = GmaStart(max_articles)

NextGma == GmaLanding \/ GmaNoLanding \/ GmaExtractLinks \/ GmaArticle

SpecGma == InitGma /\ [][NextGma]_vars

\* C17 (refuted): in a run no request follows another request without a delay
\* between them.
C17_DelayBeforeEveryRequest == ~fn.undelayed

-----------------------------------------------------------------------------
(* One run of the Rappler adapter: RapplerScraper.scrape_latest *)

\* a run before its discovery
RapplerStart(max_articles) ==
    [pc |-> "discover", max_articles |-> max_articles, candidates |-> 0, i |-> 0,
     articles |-> 0, errors |-> 0, attempted |-> 0]

\* discovery: a discovery source that raises adds an entry to errors; the
\* candidates are cut to max_articles * 3
RapplerDiscover ==
    /\ fn.pc = "discover"
    /\ \E failed \in 0..1, found \in 0..(3 * fn.max_articles) :
          fn' = [fn EXCEPT !.pc = "articles", !.errors = failed, !.candidates = found]
    /\ UNCHANGED <<articles, logs, queue, bias, proc, ana, budget>>

\* for url in candidates: break when len(articles) >= max_articles;
\* article = self._scrape_article(url, browser), which returns None when the
\* fetch or the extraction fails; if article: articles.append(article)
RapplerArticle ==
    /\ fn.pc = "articles"
    /\ fn.i < fn.candidates
    /\ fn.articles < fn.max_articles
    /\ \E got \in BOOLEAN :
          fn' = [fn EXCEPT !.i = @ + 1, !.attempted = @ + 1,
                           !.articles = IF got THEN @ + 1 ELSE @]
    /\ UNCHANGED <<articles, logs, queue, bias, proc, ana, budget>>

\* the browser raises inside the loop: errors.append(f"Scraping: {e}")
RapplerBrowserError ==
    /\ fn.pc = "articles"
    /\ fn' = [fn EXCEPT !.pc = "done", !.errors = @ + 1]
    /\ UNCHANGED <<articles, logs, queue, bias, proc, ana, budget>>

\* the loop ends: no candidate is left or max_articles are collected
RapplerReturn ==
    /\ fn.pc = "articles"
    /\ fn.i >= fn.candidates \/ fn.articles >= fn.max_articles
    /\ fn' = [fn EXCEPT !.pc = "done"]
    /\ UNCHANGED <<articles, logs, queue, bias, proc, ana, budget>>

InitRappler ==
    /\ InitIdle
    /\ \E max_articles \in 1..MaxUrls : fn = RapplerStart(max_articles)

NextRappler == RapplerDiscover \/ RapplerArticle \/ RapplerBrowserError \/ RapplerReturn

SpecRappler == InitRappler /\ [][NextRappler]_vars

\* C18 (refuted): at the end of a run every attempted candidate url is either
\* an article or an entry of errors: len(articles) + len(errors) >= attempted.
C18_FailedUrlIsRecorded ==
    fn.pc = "done" => fn.articles + fn.errors >= fn.attempted

-----------------------------------------------------------------------------
(* One run of the Manila Times adapter: the fetch with its retries *)

MaxCandidates == 2

\* _fetch_with_retry(self, url, max_retries=3)
fetch_max_retries == 3

\* what one client.get(url) can end in: a status code, or the name of the
\* exception it raises ("timeout" and "connect" are httpx.RequestError,
\* "other" is any other exception)
Responses == {"200", "404", "500", "502", "503", "timeout", "connect", "other"}

\* the failures the fetch is to get over by asking again
Transient == {"500", "502", "503", "timeout", "connect"}

\* random.uniform(1, 3), by its two ends
Jitters == {1, 3}

\* wait_time = (2 ** attempt) + random.uniform(1, 3)
WaitTime(attempt, jitter) == 2^attempt + jitter

\* the branch of _fetch_with_retry a response takes on a given attempt:
\* 502 and RequestError sleep and continue while attempt < max_retries - 1;
\* raise_for_status() turns every other 4xx and 5xx into an HTTPStatusError,
\* which returns None at once, as does any other exception
FetchBranch(r, attempt) ==
    IF r = "200" THEN "html"
    ELSE IF r \in {"502", "timeout", "connect"} /\ attempt < fetch_max_retries - 1
         THEN "retry"
         ELSE "none"

MtStart(n) ==
    [pc |-> "loop", candidates |-> n, i |-> 0, attempt |-> 0, requests |-> 0,
     wait |-> 0, articles |-> 0, errors |-> 0, fetched |-> <<>>]

\* for i, url in enumerate(candidate_urls, 1): html = self._fetch_with_retry(url)
MtNextUrl ==
    /\ fn.pc = "loop"
    /\ fn.i < fn.candidates
    /\ fn' = [fn EXCEPT !.pc = "fetch", !.i = @ + 1, !.attempt = 0,
                        !.requests = 0, !.wait = 0]
    /\ UNCHANGED <<articles, logs, queue, bias, proc, ana, budget>>

\* one turn of the loop of _fetch_with_retry, and, when the fetch returns,
\* the rest of the turn of scrape_latest: `if not html: errors.append(...);
\* continue`, else the extraction, which appends the article or an error
MtRequest ==
    /\ fn.pc = "fetch"
    /\ fn.attempt < fetch_max_retries
    /\ \E r \in Responses, jitter \in Jitters, extracted \in BOOLEAN :
          LET branch == FetchBranch(r, fn.attempt)
              record == [requests |-> fn.requests + 1, last |-> r,
                         html |-> branch = "html"]
          IN  fn' = IF branch = "retry"
                    THEN [fn EXCEPT !.requests = @ + 1, !.attempt = @ + 1,
                                    !.wait = WaitTime(fn.attempt, jitter)]
                    ELSE [fn EXCEPT !.pc = "loop", !.requests = @ + 1,
                                    !.fetched = Append(@, record),
                                    !.articles = IF branch = "html" /\ extracted
                                                 THEN @ + 1 ELSE @,
                                    !.errors = IF branch = "html" /\ extracted
                                               THEN @ ELSE @ + 1]
    /\ UNCHANGED <<articles, logs, queue, bias, proc, ana, budget>>

\* return ScrapingResult(articles=articles, errors=errors, ...)
MtReturn ==
    /\ fn.pc = "loop"
    /\ fn.i = fn.candidates
    /\ fn' = [fn EXCEPT !.pc = "done"]
    /\ UNCHANGED <<articles, logs, queue, bias, proc, ana, budget>>

InitFetch ==
    /\ InitIdle
    /\ \E n \in 0..MaxCandidates : fn = MtStart(n)

NextFetch == MtNextUrl \/ MtRequest \/ MtReturn

SpecFetch == InitFetch /\ [][NextFetch]_vars

\* C19 (refuted): a fetch makes at most max_retries requests; one that ends
\* without a page after a transient failure (a timeout, a connection error or
\* any 5xx response) has used up all its attempts; and every url that ended
\* without a page is an entry of errors.
C19_TransientRetriedUntilExhausted ==
    /\ fn.requests <= fetch_max_retries
    /\ \A k \in 1..Len(fn.fetched) :
          /\ fn.fetched[k].requests <= fetch_max_retries
          /\ (~fn.fetched[k].html /\ fn.fetched[k].last \in Transient)
                => fn.fetched[k].requests = fetch_max_retries
    /\ fn.errors >= Cardinality({k \in 1..Len(fn.fetched) : ~fn.fetched[k].html})

-----------------------------------------------------------------------------
(* The political keyword lexicon: the file, the command that extends it and
   the cache of every running process *)

MaxApplies == 2

\* the running processes that analyse articles
LexProcs == {"api", "worker"}

\* the terms of the one category the command merges into
Terms == {"t1", "t2"}

\* defaults = {"version": "embedded", "keywords": {}, "weights": {}}
EmbeddedDefaults == [version |-> "embedded", keywords |-> {}]

\* what json.load gives for keywords_ph.json with the given terms
FileCfg(terms) == [version |-> "file", keywords |-> terms]

\* _load_political_keywords: the cached config when the cache is not empty,
\* else the file's config (the defaults when the file does not parse, as
\* while it is being rewritten), which becomes the cache
LoadPoliticalKeywords(cache, file, writing) ==
    IF cache # Null THEN cache[1]
    ELSE IF writing THEN EmbeddedDefaults
    ELSE FileCfg(file)

\* an analysis in process p: get_political_keywords_and_weights
LexAnalyze(p) ==
    /\ fn.pc \in {"idle", "writing"}
    /\ LET cfg == LoadPoliticalKeywords(fn.cache[p], fn.file, fn.pc = "writing")
       IN  fn' = [fn EXCEPT !.cache[p] = Some(cfg),
                            !.used[p] = Some([lexicon |-> cfg.keywords,
                                              file |-> fn.file,
                                              written |-> fn.pc = "idle"])]
    /\ UNCHANGED <<articles, logs, queue, bias, proc, ana, budget>>

\* main() of the command up to open(path, 'w'): without suggestions, without
\* new terms or without --apply nothing is written; else the file is copied
\* to the backup and truncated
ApplyOpen ==
    /\ fn.pc = "idle"
    /\ fn.runs < MaxApplies
    /\ \E suggestions \in SUBSET Terms, apply \in BOOLEAN :
          LET to_add == suggestions \ fn.file
          IN  fn' = IF to_add = {} \/ ~apply
                    THEN [fn EXCEPT !.runs = @ + 1]
                    ELSE [fn EXCEPT !.runs = @ + 1, !.pc = "writing",
                                    !.backup = Some(fn.file),
                                    !.pending = fn.file \cup to_add]
    /\ UNCHANGED <<articles, logs, queue, bias, proc, ana, budget>>

\* json.dump(data, f) and the close of the file
ApplySave ==
    /\ fn.pc = "writing"
    /\ fn' = [fn EXCEPT !.pc = "idle", !.file = fn.pending, !.pending = {}]
    /\ UNCHANGED <<articles, logs, queue, bias, proc, ana, budget>>

InitLexicon ==
    /\ InitIdle
    /\ \E terms \in SUBSET Terms :
          fn = [pc |-> "idle", file |-> terms, pending |-> {}, backup |-> Null,
                runs |-> 0, cache |-> [p \in LexProcs |-> Null],
                used |-> [p \in LexProcs |-> Null]]

NextLexicon == (\E p \in LexProcs : LexAnalyze(p)) \/ ApplyOpen \/ ApplySave

SpecLexicon == InitLexicon /\ [][NextLexicon]_vars

\* C20 (refuted): an analysis made while the keyword file is completely
\* written uses the terms of the file, also in a process that was already
\* running when the command extended the file.
C20_AnalysisUsesWrittenLexicon ==
    \A p \in LexProcs :
        (fn.used[p] # Null /\ fn.used[p][1].written)
            => fn.used[p][1].lexicon = fn.used[p][1].file

-----------------------------------------------------------------------------
(* The response of the insert and the ids taken from it *)

MaxRows == 3

\* the url of the i-th row of the insert
NewUrl(i) == <<"n", i>>

\* ins.data: one returned row for every inserted row; the rows in withIds
\* carry their id, the others come back with id None
ResponseData(tbl, rows, withIds) ==
    [i \in 1..Len(rows) |->
        [url |-> rows[i], id |-> IF i \in withIds THEN Some(Len(tbl) + i) ELSE Null]]

\* inserted_ids = [int(r.get('id')) for r in data if r.get('id') is not None]
IdsOfData(data) ==
    LET HasId(r) == r.id # Null
        kept == SelectSeq(data, HasId)
    IN  [i \in 1..Len(kept) |-> kept[i].id[1]]

\* the tail of insert_articles for the built rows: nothing to insert, the
\* insert raises (rows stored or not), or the insert answers with data;
\* inserted = len(data), and the ids are the ones the data carries
RespInsert ==
    /\ fn.pc = "insert"
    /\ LET rows == fn.rows
       IN  \/ /\ rows = <<>>
              /\ fn' = [fn EXCEPT !.pc = "result",
                                  !.result = StoreResult(0, 0, 0, <<>>, "none")]
              /\ UNCHANGED articles
           \/ /\ rows # <<>>
              /\ \E applied \in BOOLEAN :
                    articles' = IF applied THEN InsertRows(articles, rows) ELSE articles
              /\ fn' = [fn EXCEPT !.pc = "result",
                                  !.result = StoreResult(Len(rows), 0, 0, <<>>, "insert")]
           \/ /\ rows # <<>>
              /\ articles' = InsertRows(articles, rows)
              /\ \E withIds \in SUBSET (1..Len(rows)) :
                    LET data == ResponseData(articles, rows, withIds)
                    IN  fn' = [fn EXCEPT !.pc = "result",
                                         !.result = StoreResult(Len(rows), 0, Len(data),
                                                                IdsOfData(data), "none")]
    /\ UNCHANGED <<logs, queue, bias, proc, ana, budget>>

\* the scrape task after insert_articles: inserted_ids =
\* store_result.get("inserted_ids") or []; if inserted_ids:
\* analyze_articles_task.delay(inserted_ids)
RespEnqueue ==
    /\ fn.pc = "result"
    /\ LET inserted_ids == fn.result.inserted_ids
       IN  queue' = IF ShouldEnqueue(inserted_ids) THEN Append(queue, inserted_ids)
                    ELSE queue
    /\ fn' = [fn EXCEPT !.pc = "done"]
    /\ UNCHANGED <<articles, logs, bias, proc, ana, budget>>

InitResponse ==
    /\ logs = <<>> /\ queue = <<>> /\ bias = <<>> /\ proc = <<>> /\ ana = <<>>
    /\ budget = [calls |-> 0, faults |-> 0]
    /\ \E stored \in 0..MaxRows, n \in 0..MaxRows :
          /\ articles = [i \in 1..stored |-> Row(i, <<"s", i>>)]
          /\ fn = [pc |-> "insert", rows |-> [i \in 1..n |-> NewUrl(i)],
                   result |-> NoResult]

NextResponse == RespInsert \/ RespEnqueue

SpecResponse == InitResponse /\ [][NextResponse]_vars

\* C21 (refuted): whenever insert_articles reports inserted > 0 its
\* inserted_ids is not empty, and the task then enqueues an analysis.
C21_InsertedRowsHaveIds ==
    (fn.pc \in {"result", "done"} /\ fn.result.inserted > 0)
        => /\ fn.result.inserted_ids # <<>>
           /\ fn.pc = "done" => queue # <<>>

-----------------------------------------------------------------------------
(* The funds classifier: classify_is_funds.  A text is a sequence of
   characters, a cue of a pattern a sequence of characters and WS items *)

\* the regex item \s+
WS == "\\s+"

\* the whitespace characters of the texts
White == {" ", "\n"}

UpperChars ==
    <<"A", "B", "C", "D", "E", "F", "G", "H", "I", "J", "K", "L", "M",
      "N", "O", "P", "Q", "R", "S", "T", "U", "V", "W", "X", "Y", "Z">>

LowerChars ==
    <<"a", "b", "c", "d", "e", "f", "g", "h", "i", "j", "k", "l", "m",
      "n", "o", "p", "q", "r", "s", "t", "u", "v", "w", "x", "y", "z">>

LowerChar(c) ==
    IF \E i \in 1..26 : UpperChars[i] = c
    THEN LowerChars[CHOOSE i \in 1..26 : UpperChars[i] = c]
    ELSE c

\* text.lower()
LowerText(t) == [i \in 1..Len(t) |-> LowerChar(t[i])]

\* text.strip()
RECURSIVE StripText(_)
StripText(t) ==
    IF t # <<>> /\ t[1] \in White THEN StripText(Drop(t, 1))
    ELSE IF t # <<>> /\ t[Len(t)] \in White THEN StripText(Take(t, Len(t) - 1))
    ELSE t

\* MONEY; the cue written \\bphp\\b in a raw string is a backslash, "bphp", a backslash and "b"
MONEY ==
    { <<"f", "u", "n", "d">>,
      <<"b", "u", "d", "g", "e", "t">>,
      <<"a", "p", "p", "r", "o", "p", "r", "i", "a", "t", "i", "o", "n">>,
      <<"a", "l", "l", "o", "c", "a", "t", "i", "o", "n">>,
      <<"d", "i", "s", "b", "u", "r", "s", "e", "m", "e", "n", "t">>,
      <<"a", "u", "d", "i", "t">>,
      <<"c", "o", "a">>,
      <<"\\", "b", "p", "h", "p", "\\", "b">>,
      <<"b", "i", "l", "l", "i", "o", "n">>,
      <<"m", "i", "l", "l", "i", "o", "n">>,
      <<"t", "r", "i", "l", "l", "i", "o", "n">>,
      <<"p", "e", "s", "o">>,
      <<"p", "e", "s", "o", "s">> }

\* PH_GOVERNMENT ("n~" is the letter n with tilde)
PH_GOVERNMENT ==
    { <<"p", "h", "i", "l", "i", "p", "p", "i", "n", "e">>,
      <<"p", "h">>,
      <<"d", "p", "w", "h">>,
      <<"d", "b", "m">>,
      <<"c", "o", "a">>,
      <<"c", "o", "m", "e", "l", "e", "c">>,
      <<"d", "i", "l", "g">>,
      <<"d", "o", "h">>,
      <<"d", "e", "p", "e", "d">>,
      <<"d", "o", "t", "r">>,
      <<"s", "e", "n", "a", "t", "e">>,
      <<"h", "o", "u", "s", "e">>,
      <<"c", "o", "n", "g", "r", "e", "s", "s">>,
      <<"s", "o", "l", "o", "n">>,
      <<"l", "a", "w", "m", "a", "k", "e", "r">>,
      <<"b", "i", "l", "l">>,
      <<"a", "p", "p", "r", "o", "p", "r", "i", "a", "t", "i", "o", "n">>,
      <<"b", "u", "d", "g", "e", "t">>,
      <<"m", "a", "l", "a", "c", "a", "n~", "a", "n", "g">>,
      <<"p", "a", "l", "a", "c", "e">>,
      <<"p", "r", "e", "s", "i", "d", "e", "n", "t">>,
      <<"v", "i", "c", "e", " ", "p", "r", "e", "s", "i", "d", "e", "n", "t">>,
      <<"o", "m", "b", "u", "d", "s", "m", "a", "n">>,
      <<"p", "h", "i", "l", "i", "p", "p", "i", "n", "e", "s">>,
      <<"f", "i", "l", "i", "p", "i", "n", "o">>,
      <<"p", "h", "i", "l", "i", "p", "p", "i", "n", "e", WS, "g", "o", "v", "e", "r", "n", "m", "e", "n", "t">>,
      <<"p", "h", WS, "g", "o", "v", "e", "r", "n", "m", "e", "n", "t">> }

\* CORRUPTION
CORRUPTION ==
    { <<"p", "o", "r", "k">>,
      <<"k", "i", "c", "k", "b", "a", "c", "k">>,
      <<"a", "n", "o", "m", "a", "l", "y">>,
      <<"g", "r", "a", "f", "t">>,
      <<"p", "l", "u", "n", "d", "e", "r">>,
      <<"m", "i", "s", "u", "s", "e">>,
      <<"o", "v", "e", "r", "p", "r", "i", "c", "e">>,
      <<"o", "v", "e", "r", "p", "r", "i", "c", "e", "d">>,
      <<"s", "c", "a", "m">>,
      <<"w", "h", "i", "s", "t", "l", "e", "b", "l", "o", "w", "e", "r">> }

\* SPORTS
SPORTS ==
    { <<"b", "a", "s", "k", "e", "t", "b", "a", "l", "l">>,
      <<"v", "o", "l", "l", "e", "y", "b", "a", "l", "l">>,
      <<"f", "o", "o", "t", "b", "a", "l", "l">>,
      <<"s", "o", "c", "c", "e", "r">>,
      <<"n", "b", "a">>,
      <<"p", "b", "a">>,
      <<"u", "a", "a", "p">>,
      <<"n", "c", "a", "a">>,
      <<"t", "o", "u", "r", "n", "a", "m", "e", "n", "t">>,
      <<"m", "a", "t", "c", "h">>,
      <<"g", "a", "m", "e">>,
      <<"c", "o", "a", "c", "h">>,
      <<"p", "l", "a", "y", "e", "r">>,
      <<"c", "l", "u", "b">> }

\* CRIME
CRIME ==
    { <<"s", "h", "a", "b", "u">>,
      <<"b", "u", "y", "-", "b", "u", "s", "t">>,
      <<"d", "r", "u", "g">>,
      <<"n", "a", "r", "c", "o", "t", "i", "c", "s">>,
      <<"i", "l", "l", "e", "g", "a", "l", WS, "d", "r", "u", "g", "s">>,
      <<"a", "n", "t", "i", "-", "d", "r", "u", "g">>,
      <<"m", "e", "t", "h">>,
      <<"p", "d", "e", "a">> }

\* DISASTERS
DISASTERS ==
    { <<"e", "a", "r", "t", "h", "q", "u", "a", "k", "e">>,
      <<"t", "y", "p", "h", "o", "o", "n">>,
      <<"h", "u", "r", "r", "i", "c", "a", "n", "e">>,
      <<"n", "a", "t", "u", "r", "a", "l", WS, "d", "i", "s", "a", "s", "t", "e", "r">>,
      <<"m", "a", "g", "n", "i", "t", "u", "d", "e">>,
      <<"a", "f", "t", "e", "r", "s", "h", "o", "c", "k">>,
      <<"t", "s", "u", "n", "a", "m", "i">>,
      <<"l", "a", "n", "d", "s", "l", "i", "d", "e">>,
      <<"v", "o", "l", "c", "a", "n", "o">>,
      <<"e", "r", "u", "p", "t", "i", "o", "n">>,
      <<"s", "t", "o", "r", "m">>,
      <<"c", "y", "c", "l", "o", "n", "e">>,
      <<"t", "o", "r", "n", "a", "d", "o">>,
      <<"f", "l", "a", "s", "h", WS, "f", "l", "o", "o", "d">>,
      <<"f", "l", "o", "o", "d", "i", "n", "g", WS, "i", "n", "c", "i", "d", "e", "n", "t">> }

\* DAMAGE
DAMAGE ==
    { <<"d", "a", "m", "a", "g", "e">>,
      <<"d", "a", "m", "a", "g", "e", "s">>,
      <<"d", "e", "s", "t", "r", "o", "y", "e", "d">>,
      <<"c", "o", "l", "l", "a", "p", "s", "e", "d">>,
      <<"i", "n", "j", "u", "r", "e", "d">>,
      <<"k", "i", "l", "l", "e", "d">>,
      <<"d", "e", "a", "t", "h", "s">>,
      <<"c", "a", "s", "u", "a", "l", "t", "i", "e", "s">>,
      <<"e", "v", "a", "c", "u", "a", "t", "e", "d">>,
      <<"d", "i", "s", "p", "l", "a", "c", "e", "d">>,
      <<"a", "f", "f", "e", "c", "t", "e", "d">>,
      <<"v", "i", "c", "t", "i", "m", "s">>,
      <<"p", "r", "o", "p", "e", "r", "t", "y", WS, "d", "a", "m", "a", "g", "e">> }

\* the positions just after the matches of the items k.. of cue c that begin
\* at position i of text t
RECURSIVE MatchEnds(_, _, _, _)
MatchEnds(t, i, c, k) ==
    IF k > Len(c) THEN {i}
    ELSE IF i > Len(t) THEN {}
    ELSE IF c[k] = WS
         THEN IF t[i] \in White
              THEN MatchEnds(t, i + 1, c, k) \cup MatchEnds(t, i + 1, c, k + 1)
              ELSE {}
         ELSE IF t[i] = c[k] THEN MatchEnds(t, i + 1, c, k + 1) ELSE {}

\* the positions of t where some cue of cues matches
Starts(t, cues) ==
    {i \in 1..Len(t) : \E c \in cues : MatchEnds(t, i, c, 1) # {}}

\* the matches of the cues in t as <<first position, position after the last>>
Spans(t, cues) ==
    UNION {{<<i, e>> : e \in UNION {MatchEnds(t, i, c, 1) : c \in cues}} : i \in 1..Len(t)}

\* a pattern without the disaster cues
NegativeWithoutDisasters(t) == Starts(t, SPORTS \cup CRIME \cup DAMAGE) # {}

\* a pattern that matches nothing
NoNegativePattern(t) == FALSE

\* NEGATIVE_PATTERN.search(t)
NegativeSearch(t) == Starts(t, SPORTS \cup CRIME \cup DISASTERS \cup DAMAGE) # {}

\* POSITIVE_PATTERN.search(t), (?=.*MONEY).*(?:PH_GOVERNMENT|CORRUPTION) with
\* DOTALL: from some position p on there is a money cue, and from p on there
\* is a government or corruption cue
PositiveSearch(t) ==
    LET money == Starts(t, MONEY)
        gov == Starts(t, PH_GOVERNMENT \cup CORRUPTION)
    IN  \E p \in 1..(Len(t) + 1) :
            /\ \E i \in money : i >= p
            /\ \E j \in gov : j >= p

\* "." without DOTALL: no newline in t[a .. b-1]
SameLine(t, a, b) == \A x \in a..(b - 1) : t[x] # "\n"

\* disaster_money_pattern.search(t): (?:DISASTERS).*MONEY|MONEY.*DISASTERS
DisasterMoneySearch(t) ==
    LET d == Spans(t, DISASTERS)
        m == Spans(t, MONEY)
    IN  \/ \E x \in d, y \in m : x[2] <= y[1] /\ SameLine(t, x[2], y[1])
        \/ \E y \in m, x \in d : y[2] <= x[1] /\ SameLine(t, y[2], x[1])

\* the outcomes of a call: a returned boolean, or the NameError of the
\* undefined name PUBLIC_SECTOR
Return(b) == [returned |-> TRUE, value |-> b]
RaiseNameError == [returned |-> FALSE, value |-> FALSE]

\* title or ""
OrEmpty(x) == IF x = Null THEN <<>> ELSE x[1]

\* what _spacy_funds_analysis can return, confidence in tenths; Null stands
\* for USE_SPACY_FUNDS off
SpacyResults ==
    { Null,
      Some([is_funds |-> "none", confidence |-> 0]),
      Some([is_funds |-> "false", confidence |-> 9]),
      Some([is_funds |-> "true", confidence |-> 8]),
      Some([is_funds |-> "true", confidence |-> 7]),
      Some([is_funds |-> "false", confidence |-> 3]) }

\* classify_is_funds(title, content), with the answer of the NER pass
classify_is_funds(title, content, spacy) ==
    LET text == StripText(OrEmpty(title) \o <<"\n">> \o OrEmpty(content))
        text_lower == LowerText(text)
    IN  IF text = <<>> THEN Return(FALSE)
        ELSE IF NegativeSearch(text_lower) THEN Return(FALSE)
        ELSE LET regex_decision == PositiveSearch(text_lower)
             IN  IF /\ spacy # Null
                    /\ spacy[1].is_funds # "none"
                    /\ spacy[1].confidence > 6
                 THEN Return(spacy[1].is_funds = "true")
                 ELSE IF spacy # Null /\ regex_decision /\ spacy[1].confidence < 5
                 THEN Return(FALSE)
                 ELSE IF regex_decision /\ DisasterMoneySearch(text_lower)
                 THEN RaiseNameError
                 ELSE Return(regex_decision)

\* the words of the titles and contents
FundsWords ==
    { <<"P", "B", "A">>,
      <<"s", "h", "a", "b", "u">>,
      <<"t", "y", "p", "h", "o", "o", "n">>,
      <<"f", "l", "a", "s", "h">>,
      <<"f", "l", "o", "o", "d">>,
      <<"d", "a", "m", "a", "g", "e">>,
      <<"b", "u", "d", "g", "e", "t">>,
      <<"m", "i", "l", "l", "i", "o", "n">>,
      <<"b", "i", "l", "l", "i", "o", "n">>,
      <<"p", "h", "p">>,
      <<"f", "u", "n", "d">>,
      <<"d", "p", "w", "h">>,
      <<"S", "e", "n", "a", "t", "e">>,
      <<"g", "r", "a", "f", "t">>,
      <<"t", "i", "p", "s">> }

\* a title or a content: None, the empty string, one word, or "typhoon budget"
FundsFields ==
    {Null, Some(<<>>)} \cup {Some(w) : w \in FundsWords}
        \cup {Some(<<"t", "y", "p", "h", "o", "o", "n", " ", "b", "u", "d", "g", "e", "t">>)}

\* a call of the classifier from the rows built by insert_articles
FundsClassify ==
    /\ fn.pc = "input"
    /\ fn' = [fn EXCEPT !.pc = "classified",
                        !.first = classify_is_funds(fn.title, fn.content, fn.spacy)]
    /\ UNCHANGED <<articles, logs, queue, bias, proc, ana, budget>>

\* a later call with the same title and content (a re-insert, a backfill)
FundsClassifyAgain ==
    /\ fn.pc = "classified"
    /\ fn.first.returned
    /\ fn' = [fn EXCEPT !.pc = "again",
                        !.second = classify_is_funds(fn.title, fn.content, fn.spacy)]
    /\ UNCHANGED <<articles, logs, queue, bias, proc, ana, budget>>

InitFunds ==
    /\ InitIdle
    /\ \E title \in FundsFields, content \in FundsFields, spacy \in SpacyResults :
          fn = [pc |-> "input", title |-> title, content |-> content,
                spacy |-> spacy, first |-> Return(FALSE), second |-> Return(FALSE)]

NextFunds == FundsClassify \/ FundsClassifyAgain

SpecFunds == InitFunds /\ [][NextFunds]_vars

-----------------------------------------------------------------------------
(* Properties of the funds classifier *)

\* the text of a title and a content, lower-cased
InputText == LowerText(OrEmpty(fn.title) \o <<"\n">> \o OrEmpty(fn.content))

\* the sports, crime, disaster and damage cues
VetoCues == SPORTS \cup CRIME \cup DISASTERS \cup DAMAGE

\* C22: in regex-only mode a text that contains a sports, crime, disaster or
\* damage cue is classified false, whatever money, government or corruption
\* cues it contains as well.
C22_VetoWins ==
    (fn.pc \in {"classified", "again"} /\ fn.spacy = Null /\ Starts(InputText, VetoCues) # {})
        => fn.first = Return(FALSE)

\* C22 witness: a classified text with a veto cue that also matches the
\* positive pattern (a money cue and a government cue).
C22_Witness ==
    /\ fn.pc = "classified"
    /\ fn.spacy = Null
    /\ Starts(InputText, VetoCues) # {}
    /\ PositiveSearch(InputText)
    /\ fn.first = Return(FALSE)

\* the money cues as the specification lists them
ListedMoneyCues ==
    (MONEY \ {<<"\\", "b", "p", "h", "p", "\\", "b">>}) \cup {<<"p", "h", "p">>}

\* the public-sector cues as the specification lists them
ListedPublicSectorCues ==
    { <<"d", "p", "w", "h">>, <<"d", "b", "m">>, <<"c", "o", "a">>,
      <<"c", "o", "m", "e", "l", "e", "c">>, <<"d", "i", "l", "g">>,
      <<"d", "o", "h">>, <<"d", "e", "p", "e", "d">>, <<"d", "o", "t", "r">>,
      <<"s", "e", "n", "a", "t", "e">>, <<"h", "o", "u", "s", "e">>,
      <<"c", "o", "n", "g", "r", "e", "s", "s">>, <<"s", "o", "l", "o", "n">>,
      <<"l", "a", "w", "m", "a", "k", "e", "r">>, <<"b", "i", "l", "l">>,
      <<"m", "a", "l", "a", "c", "a", "n~", "a", "n", "g">>,
      <<"p", "a", "l", "a", "c", "e">>,
      <<"p", "r", "e", "s", "i", "d", "e", "n", "t">>,
      <<"o", "m", "b", "u", "d", "s", "m", "a", "n">>,
      <<"p", "h", "i", "l", "i", "p", "p", "i", "n", "e", " ", "g", "o", "v", "e", "r", "n", "m", "e", "n", "t">> }

\* C23 (refuted): in regex-only mode a text with a money cue, without any
\* public-sector cue and without any corruption cue is classified false.
C23_MoneyAloneIsNotFunds ==
    ( /\ fn.pc \in {"classified", "again"}
      /\ fn.spacy = Null
      /\ Starts(InputText, ListedMoneyCues) # {}
      /\ Starts(InputText, ListedPublicSectorCues \cup CORRUPTION) = {} )
        => fn.first = Return(FALSE)

-----------------------------------------------------------------------------
(* The sentiment row: analyze_sentiment_vader and build_bias_row_for_vader.
   Scores are counted in steps of 0.0001, the precision of the compound
   score of the sentiment library *)

\* 1.0 in steps: compound_score in [-1, 1]
CompoundOne == 10000

\* 0.05 in steps
ThresholdPos == 500

\* a labelling with strict comparisons
StrictSentimentLabel(compound) ==
    IF compound > ThresholdPos THEN "positive"
    ELSE IF compound < -ThresholdPos THEN "negative"
    ELSE "neutral"

\* if compound >= 0.05: "positive"; elif compound <= -0.05: "negative";
\* else: "neutral"
SentimentLabel(compound) ==
    IF compound >= ThresholdPos THEN "positive"
    ELSE IF compound <= -ThresholdPos THEN "negative"
    ELSE "neutral"

\* build_bias_row_for_vader(article_id, text) for a text of the given compound
BuildBiasRowForVader(article_id, compound) ==
    [article_id |-> article_id, model_version |-> "vader_v1",
     model_type |-> "sentiment", sentiment_score |-> compound,
     sentiment_label |-> SentimentLabel(compound), confidence_score |-> Null]

\* the analysis of one article builds its sentiment row
SentimentAnalyze ==
    /\ fn.pc = "text"
    /\ fn' = [fn EXCEPT !.pc = "row", !.row = Some(BuildBiasRowForVader(1, fn.compound))]
    /\ UNCHANGED <<articles, logs, queue, bias, proc, ana, budget>>

InitSentiment ==
    /\ InitIdle
    /\ \E compound \in (-CompoundOne)..CompoundOne :
          fn = [pc |-> "text", compound |-> compound, row |-> Null]

NextSentiment == SentimentAnalyze

SpecSentiment == InitSentiment /\ [][NextSentiment]_vars

\* C25: the label of a sentiment row is positive when its score is at least
\* 0.05, negative when it is at most -0.05, and neutral in between.
C25_LabelAgreesWithThresholds ==
    fn.row # Null =>
        LET score == fn.row[1].sentiment_score
            label == fn.row[1].sentiment_label
        IN  /\ score >= 500 => label = "positive"
            /\ score <= -500 => label = "negative"
            /\ (-500 < score /\ score < 500) => label = "neutral"

\* C25 witness: the row of a text whose compound score is exactly 0.05.
C25_Witness ==
    /\ fn.row # Null
    /\ fn.row[1].sentiment_score = 500
    /\ fn.row[1].sentiment_label = "positive"

-----------------------------------------------------------------------------
(* The political bias row: analyze_political_bias_philippine and
   build_bias_row_for_philippine_political.  Weights are counted in tenths,
   compound scores in steps of 0.0001, and a score is the fraction num / den *)

MaxMatches == 2

ProGovCategories ==
    {"pro_gov_current_admin", "pro_gov_administration", "pro_gov_policies",
     "pro_gov_positive_terms"}

ProOppCategories ==
    {"pro_opp_opposition_figures", "pro_opp_criticism", "pro_opp_protest",
     "pro_opp_negative_terms"}

NeutralCategories == {"neutral_general", "neutral_process", "neutral_institutional"}

\* the categories of POLITICAL_KEYWORDS
Categories == ProGovCategories \cup ProOppCategories \cup NeutralCategories

\* the default weights w(k, d), in tenths
DefaultWeights ==
    [c \in Categories |->
        CASE c = "pro_gov_current_admin" -> 4
          [] c = "pro_gov_administration" -> 3
          [] c = "pro_gov_policies" -> 2
          [] c = "pro_gov_positive_terms" -> 1
          [] c = "pro_opp_opposition_figures" -> 3
          [] c = "pro_opp_criticism" -> 3
          [] c = "pro_opp_protest" -> 2
          [] c = "pro_opp_negative_terms" -> 2
          [] c = "neutral_general" -> 4
          [] c = "neutral_process" -> 3
          [] c = "neutral_institutional" -> 3]

RECURSIVE SumOver(_, _)
SumOver(f, S) ==
    IF S = {} THEN 0
    ELSE LET c == CHOOSE x \in S : TRUE IN f[c] + SumOver(f, S \ {c})

\* pro_gov_score, pro_opp_score: the weighted counts of a group, in tenths
GroupScore(keyword_matches, group) ==
    SumOver([c \in Categories |-> keyword_matches[c] * DefaultWeights[c]], group)

Abs(x) == IF x < 0 THEN -x ELSE x
Max(a, b) == IF a >= b THEN a ELSE b
Min(a, b) == IF a <= b THEN a ELSE b

\* what the analysis reads off a text: the keyword matches of every category,
\* whether "government" or "official" occurs, the counts of formal and
\* informal indicators, and the compound score of the sentiment pass
\* analyze_political_bias_philippine(text): bias_score, direction and
\* keyword_matches
AnalyzePoliticalBias(t) ==
    LET total_matches == SumOver(t.keyword_matches, Categories)
        pro_gov_score == GroupScore(t.keyword_matches, ProGovCategories)
        pro_opp_score == GroupScore(t.keyword_matches, ProOppCategories)
        den == 100000 * Max(total_matches, 1)
        \* keyword_score * 0.6
        keyword_part == IF total_matches = 0 THEN 0
                        ELSE 6000 * Max(pro_gov_score, pro_opp_score)
        \* source_pattern * 0.1, source_pattern = 0.1 or 0.0
        source_part == IF t.source THEN 1000 * Max(total_matches, 1) ELSE 0
        \* abs(language_patterns) * 0.1, language_patterns = 0.2, -0.1 or 0.0
        language_part == IF t.informal_count > t.formal_count
                         THEN 2000 * Max(total_matches, 1)
                         ELSE IF t.formal_count > t.informal_count
                         THEN 1000 * Max(total_matches, 1)
                         ELSE 0
        \* sentiment_context * 0.2, abs(compound) if abs(compound) > 0.3 else 0.0
        sentiment_part == IF Abs(t.compound) > 3000
                          THEN 2 * Abs(t.compound) * Max(total_matches, 1)
                          ELSE 0
        num == keyword_part + source_part + language_part + sentiment_part
        over == 10 * num > den
    IN  [bias_score |-> [num |-> num, den |-> den],
         direction |-> IF pro_gov_score > pro_opp_score /\ over THEN "pro_government"
                       ELSE IF pro_opp_score > pro_gov_score /\ over THEN "pro_opposition"
                       ELSE "neutral",
         keyword_matches |-> t.keyword_matches]

\* build_bias_row_for_philippine_political(article_id, text):
\* confidence_score = min(1.0, bias_score + (total_keywords / 10.0))
BuildBiasRowForPhilippinePolitical(article_id, t) ==
    LET a == AnalyzePoliticalBias(t)
        total_keywords == SumOver(a.keyword_matches, Categories)
        den == a.bias_score.den
    IN  [article_id |-> article_id, model_version |-> "philippine_bias_v1",
         model_type |-> "political_bias", political_bias_score |-> a.bias_score,
         confidence_score |->
             [num |-> Min(den, a.bias_score.num + total_keywords * (den \div 10)),
              den |-> den],
         direction |-> a.direction, keyword_matches |-> a.keyword_matches]

\* the keyword matches of the texts: matches in at most one category of each
\* group
NoMatches == [c \in Categories |-> 0]

KeywordMatches ==
    {[[[NoMatches EXCEPT ![g] = x[1]] EXCEPT ![o] = x[2]] EXCEPT ![n] = x[3]] :
        g \in ProGovCategories, o \in ProOppCategories, n \in NeutralCategories,
        x \in (0..MaxMatches) \X (0..MaxMatches) \X (0..MaxMatches)}

\* the compound scores of the texts: -0.6, -0.3, 0, 0.3001 and 1
TextCompounds == {-6000, -3000, 0, 3001, CompoundOne}

PoliticalAnalyze ==
    /\ fn.pc = "text"
    /\ fn' = [fn EXCEPT !.pc = "row",
                        !.row = Some(BuildBiasRowForPhilippinePolitical(1, fn.text))]
    /\ UNCHANGED <<articles, logs, queue, bias, proc, ana, budget>>

InitPolitical ==
    /\ InitIdle
    /\ \E km \in KeywordMatches, source \in BOOLEAN, formal_count \in 0..1,
          informal_count \in 0..1, compound \in TextCompounds :
          fn = [pc |-> "text", row |-> Null,
                text |-> [keyword_matches |-> km, source |-> source,
                          formal_count |-> formal_count,
                          informal_count |-> informal_count, compound |-> compound]]

NextPolitical == PoliticalAnalyze

SpecPolitical == InitPolitical /\ [][NextPolitical]_vars

\* C26 (refuted): the confidence_score of a political_bias row is
\* min(1, bias_score + total_matches / 20).
C26_ConfidenceFormula ==
    fn.row # Null =>
        LET r == fn.row[1]
            total_matches == SumOver(r.keyword_matches, Categories)
            den == r.political_bias_score.den
        IN  /\ r.confidence_score.den = den
            /\ r.confidence_score.num =
                  Min(den, r.political_bias_score.num + total_matches * (den \div 20))

\* C27 (refuted): the row of a text without any keyword match has direction
\* neutral, bias_score <= 0.1 and confidence in [0, 0.05].
C27_NoMatchesIsNearZero ==
    (fn.row # Null /\ SumOver(fn.row[1].keyword_matches, Categories) = 0) =>
        LET r == fn.row[1]
        IN  /\ r.direction = "neutral"
            /\ 10 * r.political_bias_score.num <= r.political_bias_score.den
            /\ 0 <= r.confidence_score.num
            /\ 20 * r.confidence_score.num <= r.confidence_score.den

-----------------------------------------------------------------------------
(* The category resolver: extract_category_from_html, extract_category_from_url,
   resolve_category and resolve_category_pair.  A signal of a page is Null
   when the page does not carry it and Some(text) when it does *)

\* the texts of the signals: blank, two canonical keys, an unknown name
SignalTexts == {"", "sports", "business", "my_topic"}

Signals == {Null} \cup {Some(s) : s \in SignalTexts}

\* the path segments of the urls
UrlPaths ==
    { <<>>, <<"photos", "sports">>, <<"2025", "business">>, <<"about", "xyz">> }

BLACKLIST_SEGMENTS == {"photos", "about"}

\* the values of CANONICAL_CATEGORIES the texts can give
CanonicalValues == {"Sports", "Business"}

\* normalize_category(raw): None for a falsy raw, else the canonical name of
\* raw.strip().lower().replace("_", "-") or raw.strip().title()
NormalizeCategory(raw) ==
    CASE raw = Null -> Null
      [] raw = Some("") -> Null
      [] raw = Some("sports") -> Some("Sports")
      [] raw = Some("Sports") -> Some("Sports")
      [] raw = Some("business") -> Some("Business")
      [] raw = Some("Business") -> Some("Business")
      [] raw = Some("my_topic") -> Some("My_Topic")
      [] raw = Some("My_Topic") -> Some("My_Topic")
      [] raw = Some("photos") -> Some("Photos")
      [] raw = Some("about") -> Some("About")
      [] raw = Some("2025") -> Some("2025")
      [] raw = Some("xyz") -> Some("Xyz")

\* the first of the candidates, in order, that normalizes to a category
RECURSIVE FirstCategory(_)
FirstCategory(candidates) ==
    IF candidates = <<>> THEN Null
    ELSE IF NormalizeCategory(Head(candidates)) # Null
         THEN NormalizeCategory(Head(candidates))
         ELSE FirstCategory(Tail(candidates))

\* extract_category_from_html(soup): the meta tags, then the breadcrumbs,
\* then the structured data
ExtractCategoryFromHtml(page) ==
    FirstCategory(<<page.meta, page.breadcrumb, page.jsonld>>)

\* extract_category_from_url(url): the first segment outside the blacklist
\* whose normal form is a canonical category
RECURSIVE ExtractCategoryFromSegments(_)
ExtractCategoryFromSegments(segments) ==
    IF segments = <<>> THEN Null
    ELSE LET seg == Head(segments)
             canon == NormalizeCategory(Some(seg))
         IN  IF seg \notin BLACKLIST_SEGMENTS /\ canon # Null /\ canon[1] \in CanonicalValues
             THEN canon
             ELSE ExtractCategoryFromSegments(Tail(segments))

\* a or b
OrElse(a, b) == IF a # Null THEN a ELSE b

\* resolve_category(url, soup)
ResolveCategory(page) ==
    OrElse(OrElse(ExtractCategoryFromHtml(page), ExtractCategoryFromSegments(page.url)),
           Some("General"))

\* resolve_category_pair(url, soup): (normalized or "General", raw)
ResolveCategoryPair(page) ==
    LET raw == OrElse(ExtractCategoryFromHtml(page), ExtractCategoryFromSegments(page.url))
        normalized == NormalizeCategory(raw)
    IN  <<OrElse(normalized, Some("General")), raw>>

\* an adapter resolves the category of a fetched page
CategoryResolve ==
    /\ fn.pc = "page"
    /\ fn' = [fn EXCEPT !.pc = "resolved",
                        !.category = ResolveCategory(fn.page),
                        !.pair = ResolveCategoryPair(fn.page)]
    /\ UNCHANGED <<articles, logs, queue, bias, proc, ana, budget>>

InitCategory ==
    /\ InitIdle
    /\ \E meta \in Signals, breadcrumb \in Signals, jsonld \in Signals, url \in UrlPaths :
          fn = [pc |-> "page", category |-> Null, pair |-> <<Null, Null>>,
                page |-> [meta |-> meta, breadcrumb |-> breadcrumb,
                          jsonld |-> jsonld, url |-> url]]

NextCategory == CategoryResolve

SpecCategory == InitCategory /\ [][NextCategory]_vars

\* a signal that is present and not blank
Resolves(signal) == signal # Null /\ signal # Some("")

\* C28 (refuted): when the page carries a JSON-LD articleSection the resolved
\* category is the one of the articleSection, whatever the meta tags and the
\* breadcrumbs say; and the category is "General" only when neither the
\* structured data, the meta tags, the breadcrumbs nor the url resolve.
C28_StructuredDataFirst ==
    fn.pc = "resolved" =>
        /\ Resolves(fn.page.jsonld) =>
              /\ fn.category = NormalizeCategory(fn.page.jsonld)
              /\ fn.pair[1] = NormalizeCategory(fn.page.jsonld)
        /\ fn.category = Some("General") =>
              /\ ~Resolves(fn.page.jsonld)
              /\ ~Resolves(fn.page.meta)
              /\ ~Resolves(fn.page.breadcrumb)
              /\ fn.page.url \in {<<>>, <<"about", "xyz">>}

-----------------------------------------------------------------------------
(* The scroll loop of RapplerScraper._discover_from_latest *)

MaxPages == 3

\* max_scroll_rounds = 12
max_scroll_rounds == 12

\* what document.body.scrollHeight evaluates to (Null: the evaluate raises)
PageHeights == {0, 100, 200}

\* what one selector does in a round: no visible element ("absent"), a
\* click that returns ("ok"), a click that raises ("raise"), or count() or
\* is_visible() raising ("error")
SelectorOutcomes == {"absent", "ok", "raise", "error"}

\* the four button selectors of a round, in order
ButtonOutcomes == [1..4 -> SelectorOutcomes]

\* the loop over the button selectors: "clicked" after the first click that
\* returns, "error" when a locator call raises (the handler around the whole
\* click part passes), "none" when no button was clicked
RECURSIVE ButtonLoop(_)
ButtonLoop(outcomes) ==
    IF outcomes = <<>> THEN "none"
    ELSE IF Head(outcomes) = "ok" THEN "clicked"
    ELSE IF Head(outcomes) = "error" THEN "error"
    ELSE ButtonLoop(Tail(outcomes))

\* the clicks of one round that returned: one for a clicked button, else one
\* for the anchor when it is visible and its click returns
RoundClicks(buttons, anchor) ==
    IF ButtonLoop(buttons) = "clicked" THEN 1
    ELSE IF ButtonLoop(buttons) = "none" /\ anchor = "ok" THEN 1
    ELSE 0

\* a loop that goes on after max_pages clicks
WhileWithoutPageCap(s) ==
    /\ s.links < s.max_links
    /\ s.no_change_rounds < 3
    /\ s.scroll_round < max_scroll_rounds

\* while len(links) < max_links and no_change_rounds < 3 and
\*       scroll_round < max_scroll_rounds and load_more_clicks < max_pages
WhileCondition(s) ==
    /\ s.links < s.max_links
    /\ s.no_change_rounds < 3
    /\ s.scroll_round < max_scroll_rounds
    /\ s.load_more_clicks < s.max_pages

\* a round of the loop, first part: scroll_round += 1, the scroll (a raising
\* evaluate is passed over) and the click part
LatestScrollAndClick ==
    /\ fn.pc = "loop"
    /\ WhileCondition(fn)
    /\ \E buttons \in ButtonOutcomes, anchor \in SelectorOutcomes :
          LET clicks == RoundClicks(buttons, anchor)
          IN  fn' = [fn EXCEPT !.pc = "height",
                               !.scroll_round = @ + 1,
                               !.load_more_clicks = @ + clicks,
                               !.round_clicks = clicks]
    /\ UNCHANGED <<articles, logs, queue, bias, proc, ana, budget>>

\* a round of the loop, second part: the page height (prev_height when the
\* evaluate raises) and the count of rounds without change
LatestHeight ==
    /\ fn.pc = "height"
    /\ \E height \in {Null} \cup {Some(h) : h \in PageHeights} :
          LET curr_height == IF height = Null THEN fn.prev_height ELSE height[1]
          IN  fn' = [fn EXCEPT !.pc = "loop",
                               !.no_change_rounds =
                                   IF curr_height = fn.prev_height THEN @ + 1 ELSE 0,
                               !.prev_height = curr_height]
    /\ UNCHANGED <<articles, logs, queue, bias, proc, ana, budget>>

\* the loop condition is false: the loop is left
LatestExit ==
    /\ fn.pc = "loop"
    /\ ~WhileCondition(fn)
    /\ fn' = [fn EXCEPT !.pc = "done"]
    /\ UNCHANGED <<articles, logs, queue, bias, proc, ana, budget>>

\* the state before the loop; max_pages is int(RAPPLER_LATEST_MAX_PAGES),
\* 2 by default, and max_links is max_articles * 2
InitLatest ==
    /\ InitIdle
    /\ \E max_pages \in 0..MaxPages, max_links \in {0, 2} :
          fn = [pc |-> "loop", links |-> 0, max_links |-> max_links,
                max_pages |-> max_pages, prev_height |-> 0, scroll_round |-> 0,
                no_change_rounds |-> 0, load_more_clicks |-> 0, round_clicks |-> 0]

NextLatest == LatestScrollAndClick \/ LatestHeight \/ LatestExit

SpecLatest == InitLatest /\ [][NextLatest]_vars

\* the loop is scheduled: a round or the exit that can be taken is taken
FairLatest == SpecLatest /\ WF_vars(NextLatest)

\* C29: the loop never runs more than 12 rounds, never makes more than
\* max_pages clicks, makes at most one click in a round, and is left in the
\* end.
C29_LatestLoopIsBounded ==
    /\ [](/\ fn.scroll_round <= 12
          /\ fn.load_more_clicks <= fn.max_pages
          /\ fn.round_clicks <= 1)
    /\ <>(fn.pc = "done")

\* C29 witness: the loop left after 12 rounds in which the page height
\* changed every time and both clicks were made (max_pages = 2).
C29_Witness ==
    /\ fn.pc = "done"
    /\ fn.scroll_round = 12
    /\ fn.no_change_rounds = 0
    /\ fn.max_pages = 2
    /\ fn.load_more_clicks = 2

-----------------------------------------------------------------------------
(* The analysis trigger over the retries of a scrape task *)

MaxStored == 3

\* C30 (refuted): every stored article row is in the end named by an analysis
\* message that the scrape task has sent, on every path of the task and its
\* retries (a task whose worker is terminated from outside is left aside).
C30_InsertedIsEventuallyEnqueued ==
    \A id \in 1..MaxStored :
        (Len(articles) >= id)
            ~> (\E p \in TaskWorkers : id \in proc[p].enqueued \/ proc[p].pc = "killed")

====
